---- MODULE Spec2Model ----
(***************************************************************************)
(* Verification model of tools/map_tracker/map_tracker_merger.py:          *)
(* DistinMapPage (pairwise overlap matching, BFS layout, barrier-driven    *)
(* territory split).                                                       *)
(*                                                                         *)
(* Rasters are modelled at pixel level on a scaled-down grid: the tile     *)
(* step of the program is 600 * 0.1625 = 97.5 px, the model keeps the      *)
(* half-integer step (2.5 px) so that Python's round-half-even on          *)
(* nx * step is exercised.  Map names are sequences of code points so     *)
(* that Python's string ordering can be computed.                          *)
(***************************************************************************)
EXTENDS Integers, Sequences, FiniteSets, TLC

VARIABLES
    \* ---- DistinMapPage._load_normal_maps / _build_layout ----
    dir_files,       \* set of file names present in input_dir
    shape,           \* name -> <<w, h>>  (maps[nm].shape[1], maps[nm].shape[0])
    match,           \* <<na, nb>> -> what _match_pair returns for that pair
    names,           \* list(maps.keys())
    edges,           \* name -> sequence of <<nbr, dx, dy>>
    positions,       \* name -> <<x, y>>; domain = keys inserted so far
    pos_keys,        \* insertion order of the keys of positions
    queue,           \* BFS deque
    comp,            \* component being collected
    components,      \* list of finished components
    x_cursor,        \* x_cursor of the normalisation loop
    comp_idx,        \* index of the next component to normalise
    parent,          \* history: name -> <<cur, dx, dy>> of the edge that placed it
    lpc,             \* control point inside _build_layout
    run_no,          \* 1 = first run, 2 = second run on the same input
    first_layout,    \* result of run 1: <<pos_keys, positions>>
    \* ---- DistinMapPage._match_pair ----
    img_a,           \* first image  [w, h, px], px: <<x, y>> -> <<b, g, r>>
    img_b,           \* second image
    result,          \* return value: None or <<dx, dy, diff_sum, n_both>>
    mpc,             \* "call" before, "ret" after _match_pair
    \* ---- DistinMapPage._stitch_group / _remove_islands / _manual_split ----
    maps,            \* name -> image of the group being stitched
    names_list,      \* list(positions.keys())
    canvas_w,        \* canvas.shape[1]
    canvas_h,        \* canvas.shape[0]
    land_masks,      \* map index (0-based) -> set of canvas pixels
    any_land,        \* union of the land masks
    overlap,         \* pixels that are land in two or more maps
    stitched_png,    \* the image written to _stitched_<group>.png, or None
    stitch_canvas,   \* canvas of _stitch_group, handed to _manual_split
    owner,           \* canvas pixel -> -1 (non-land), -2 (unresolved), i (map i)
    barrier,         \* set of canvas pixels whose barrier value is 1
    drawing,         \* drawing[0]
    erasing,         \* erasing[0]
    last_pt,         \* last_pt[0]: None or <<x, y>>
    n_events,        \* number of mouse events delivered so far
    event,           \* event argument of the last mouse_cb call, "none" before the first
    key,             \* last value of cv2.waitKey(30) & 0xFF that ended the loop
    wall,            \* barrier dilated by the 3x3 cross
    cc,              \* fillable components in label order (cc_labels 1..n_cc-1)
    exclusive_masks, \* snapshot: map index -> (owner == i) before assignment
    cc_id,           \* loop variable of the component loop
    fin,             \* ownership masks handed to _export_split_maps, or None
    exported,        \* number of calls of _export_split_maps
    spc,             \* control point inside _stitch_group / _manual_split
    \* ---- DistinMapPage._remove_islands, called on its own ----
    isl_heap,        \* array id -> image: the numpy arrays alive during the call
    isl_maps,        \* the argument maps: name -> array id
    isl_orig,        \* history: name -> image the argument held at the call
    isl_result,      \* the dict result: name -> array id
    isl_todo,        \* names the loop over maps.items() has yet to visit
    isl_log,         \* lines printed: <<name, "warn">> or <<name, "removed", n>>
    ipc,             \* "loop" inside the for loop, "ret" after return
    \* ---- MergeMapPage._prepare_data ----
    pd_walk,         \* the files in the order os.walk yields them
    pd_next,         \* position in pd_walk of the next file to look at
    groups,          \* groups: name -> (key -> file)
    pd_warnings,     \* duplicate-tile warnings printed: <<key, name>>
    ppc,             \* "walk" inside the loops, "done" after line 129
    \* ---- utils.Drawer.paste ----
    cv_img,          \* self._img, the canvas of the Drawer
    pst_log,         \* history: arguments of the pastes of the first round
    pst_snaps,       \* history: the canvas at the start and after every paste
    pst_done,        \* number of pastes of pst_log made a second time
    pst_err,         \* a paste raised
    \* ---- MergeMapPage._process_single_group, tile loop ----
    file_list,       \* keys (x, y) of tiles_dict, in order
    step,            \* number of loop iterations made
    canvas,          \* the BGRA canvas of the group
    all_tiles,       \* list of TileInfo
    manual_tiles,    \* list of TileInfo waiting for manual alignment
    apc,             \* "loop" in the tile loop, "adjust" in the manual phase, "save" after
    pasted,          \* history: tile key, image and position of every paste on canvas
    n_clicks,        \* number of mouse events delivered to handle_click
    hits,            \* history: per manual tile, the clicks that changed it
    akey             \* what ended the loop of the manual phase, 0 before

layoutVars == <<dir_files, shape, match, names, edges, positions, pos_keys, queue,
                comp, components, x_cursor, comp_idx, parent, lpc, run_no, first_layout>>

matchVars == <<img_a, img_b, result, mpc>>

stitchVars == <<maps, names_list, canvas_w, canvas_h, land_masks, any_land, overlap,
                stitched_png, stitch_canvas>>

drawVars == <<barrier, drawing, erasing, last_pt, n_events, event, key>>

assignVars == <<owner, wall, cc, exclusive_masks, cc_id>>

exportVars == <<fin, exported>>

splitVars == <<stitchVars, drawVars, assignVars, exportVars, spc>>

islandVars == <<isl_heap, isl_maps, isl_orig, isl_result, isl_todo, isl_log, ipc>>

prepVars == <<pd_walk, pd_next, groups, pd_warnings, ppc>>

pasteVars == <<cv_img, pst_log, pst_snaps, pst_done, pst_err>>

alignVars == <<file_list, step, canvas, all_tiles, manual_tiles, apc,
               pasted, n_clicks, hits, akey>>

extraVars == <<islandVars, prepVars, pasteVars, alignVars>>

vars == <<layoutVars, matchVars, splitVars, extraVars>>

nonLayoutVars == <<matchVars, splitVars, extraVars>>
nonMatchVars == <<layoutVars, splitVars, extraVars>>

----------------------------------------------------------------------------
(* Generic helpers                                                         *)

\* Python None; a tuple, so that it can be compared with tuple results.
None == <<>>

\* An empty dict.
EmptyFn == <<>>

Max2(a, b) == IF a >= b THEN a ELSE b
Min2(a, b) == IF a <= b THEN a ELSE b
Abs(a) == IF a < 0 THEN -a ELSE a

SetMin(S) == CHOOSE m \in S : \A e \in S : m <= e
SetMax(S) == CHOOSE m \in S : \A e \in S : m >= e

Range(s) == { s[i] : i \in DOMAIN s }

\* Python str comparison: lexicographic on code points, a proper prefix is smaller.
RECURSIVE StrLt(_, _)
StrLt(a, b) ==
    IF b = <<>> THEN FALSE
    ELSE IF a = <<>> THEN TRUE
    ELSE IF Head(a) # Head(b) THEN Head(a) < Head(b)
    ELSE StrLt(Tail(a), Tail(b))

StartsWith(s, p) == Len(s) >= Len(p) /\ SubSeq(s, 1, Len(p)) = p
EndsWith(s, p) == Len(s) >= Len(p) /\ SubSeq(s, Len(s) - Len(p) + 1, Len(s)) = p
Contains(s, p) == \E i \in 1..(Len(s) - Len(p) + 1) : SubSeq(s, i, i + Len(p) - 1) = p

\* sorted(seq) for a list of distinct strings: insertion into a sorted list.
InsertSorted(x, s) ==
    LET k == Cardinality({ i \in DOMAIN s : StrLt(s[i], x) })
    IN  SubSeq(s, 1, k) \o <<x>> \o SubSeq(s, k + 1, Len(s))

RECURSIVE SortedStr(_)
SortedStr(s) == IF s = <<>> THEN <<>> ELSE InsertSorted(Head(s), SortedStr(Tail(s)))

RECURSIVE SeqOfSet(_)
SeqOfSet(S) ==
    IF S = {} THEN <<>>
    ELSE LET x == CHOOSE e \in S : TRUE IN <<x>> \o SeqOfSet(S \ {x})

Reverse(s) == [i \in 1..Len(s) |-> s[Len(s) + 1 - i]]

\* Orders in which os.listdir may return the set S of file names: the model
\* takes the ascending order, its rotations and the descending order.
Listings(S) ==
    LET asc == SortedStr(SeqOfSet(S))
    IN  { SubSeq(asc, k, Len(asc)) \o SubSeq(asc, 1, k - 1) : k \in 1..Len(asc) }
        \cup { Reverse(asc) }

\* Python round(num/den) for den > 0: nearest integer, ties to even.
PyRound(num, den) ==
    LET q == num \div den
        r == num % den
    IN  IF 2 * r < den THEN q
        ELSE IF 2 * r > den THEN q + 1
        ELSE IF q % 2 = 0 THEN q ELSE q + 1

----------------------------------------------------------------------------
(* DistinMapPage.__init__: tile step.  step_fx = step_fy = 600 * 0.1625 =   *)
(* 97.5 in the program; the model keeps a half-integer step, 2.5, written  *)
(* as the numerator over 2.                                                *)

step_f2 == 5

\* round(n * sfx), round(n * sfy)
GridOffset(n) == PyRound(n * step_f2, 2)

\* round(w / sfx), round(h / sfy)
Tiles(w) == PyRound(2 * w, step_f2)

----------------------------------------------------------------------------
(* Input directory of one map group.                                       *)

MaxMaps == 3

PNG == <<46, 112, 110, 103>>                      \* ".png"
TIER == <<95, 116, 105, 101, 114, 95>>            \* "_tier_"
UNDERSCORE == <<95>>                              \* "_"

\* Map names of the group "m": "m_lv1-x", "m_lv1", "m_lv2", "m_lv3", "m_lv4".
\* "m_lv1-x.png" sorts before "m_lv1.png" ('-' < '.') although the name
\* "m_lv1" sorts before "m_lv1-x".
MapNameList ==
    << <<109, 95, 108, 118, 49, 45, 120>>,
       <<109, 95, 108, 118, 49>>,
       <<109, 95, 108, 118, 50>>,
       <<109, 95, 108, 118, 51>>,
       <<109, 95, 108, 118, 52>> >>

\* Files of the directory that _load_normal_maps must leave out:
\* "m_lv1_tier_a.png", "_stitched_m.png", "m_lv2.txt".
OtherFiles ==
    { <<109, 95, 108, 118, 49, 95, 116, 105, 101, 114, 95, 97>> \o PNG,
      <<95, 115, 116, 105, 116, 99, 104, 101, 100, 95, 109>> \o PNG,
      <<109, 95, 108, 118, 50, 46, 116, 120, 116>> }

MapNames(n) == { MapNameList[i] : i \in 1..n }

\* Image sizes <<w, h>> by position in MapNameList: 2x2 and 3x2 tiles.
ShapeList == << <<5, 5>>, <<8, 5>>, <<5, 5>>, <<8, 5>>, <<5, 5>> >>

ShapeOf(nm) == ShapeList[CHOOSE i \in DOMAIN MapNameList : MapNameList[i] = nm]

\* Cell offsets (nx, ny) that _match_pair may return for images a (first
\* argument) and b: nx in -(tiles_bx-1) .. tiles_ax-1, ny likewise, not (0, 0).
FeasibleCells(sa, sb) ==
    { c \in ((-(Tiles(sb[1]) - 1))..(Tiles(sa[1]) - 1)) \X
            ((-(Tiles(sb[2]) - 1))..(Tiles(sa[2]) - 1)) : c # <<0, 0>> }

\* The cell offsets the layout specification draws match results from.
LayoutCells == { <<1, 0>>, <<-1, 1>>, <<2, -1>> }

----------------------------------------------------------------------------
(* _load_normal_maps (lines 677-699): keys of the returned dict, in order. *)

IsNormalMap(fname) ==
    /\ EndsWith(fname, PNG)
    /\ ~Contains(fname, TIER)
    /\ ~StartsWith(fname, UNDERSCORE)

RECURSIVE FilterNames(_)
FilterNames(fs) ==
    IF fs = <<>> THEN <<>>
    ELSE IF IsNormalMap(Head(fs))
         THEN <<SubSeq(Head(fs), 1, Len(Head(fs)) - 4)>> \o FilterNames(Tail(fs))
         ELSE FilterNames(Tail(fs))

LoadUnsorted(listing) == FilterNames(listing)

LoadNormalMaps(listing) == FilterNames(SortedStr(listing))

----------------------------------------------------------------------------
(* _build_layout (lines 813-880)                                           *)

GAP == 20

\* Lines 824-825: the pairs (i, j), i < j, in loop order.
RECURSIVE PairsFrom(_, _, _)
PairsFrom(i, j, n) ==
    IF i >= n THEN <<>>
    ELSE IF j > n THEN PairsFrom(i + 1, i + 2, n)
    ELSE <<<<i, j>>>> \o PairsFrom(i, j + 1, n)

PairSeq(n) == PairsFrom(1, 2, n)

RECURSIVE AddEdges(_, _, _, _)
AddEdges(ps, nms, m, e) ==
    IF ps = <<>> THEN e
    ELSE LET na == nms[Head(ps)[1]]
             nb == nms[Head(ps)[2]]
             res == m[<<na, nb>>]
         IN  IF res # None
             THEN AddEdges(Tail(ps), nms, m,
                    [e EXCEPT ![na] = Append(@, <<nb, res[1], res[2]>>),
                              ![nb] = Append(@, <<na, -res[1], -res[2]>>)])
             ELSE AddEdges(Tail(ps), nms, m, e)

BuildEdges(nms, m) ==
    AddEdges(PairSeq(Len(nms)), nms, m, [nm \in Range(nms) |-> <<>>])

\* Line 846-848: the next BFS root.
NextStart(nms, placed) ==
    nms[SetMin({ i \in DOMAIN nms : nms[i] \notin placed })]

\* Line 858: position given to a newly reached neighbour.
NbrPosNoY(cx, cy, dx, dy) == <<cx + dx, cy>>

NbrPos(cx, cy, dx, dy) == <<cx + dx, cy + dy>>

\* Lines 856-859: the for loop over edges[cur]; st = [pos, keys, q, par].
RECURSIVE VisitEdges(_, _, _)
VisitEdges(es, cur, st) ==
    IF es = <<>> THEN st
    ELSE LET e == Head(es)
             nbr == e[1]
         IN  IF nbr \notin DOMAIN st.pos
             THEN VisitEdges(Tail(es), cur,
                    [pos  |-> st.pos @@ (nbr :> NbrPos(st.pos[cur][1], st.pos[cur][2], e[2], e[3])),
                     keys |-> Append(st.keys, nbr),
                     q    |-> Append(st.q, nbr),
                     par  |-> st.par @@ (nbr :> <<cur, e[2], e[3]>>)])
             ELSE VisitEdges(Tail(es), cur, st)

\* Line 870: normalised position.
NormPos(px, py, min_x, min_y, xc) == <<px - min_x + xc, py - min_y>>

\* Line 872: x of the next component.
NextCursorNoGap(max_right) == max_right

NextCursor(max_right) == max_right + GAP

\* Lines 867-871: max_right starts at 0 and is raised by each member.
RECURSIVE MaxRight(_, _, _, _)
MaxRight(c, pos, shp, acc) ==
    IF c = <<>> THEN acc
    ELSE MaxRight(Tail(c), pos, shp, Max2(acc, pos[Head(c)][1] + shp[Head(c)][1]))

----------------------------------------------------------------------------
(* Images.  A pixel is <<b, g, r>>; an image is [w, h, px] with px defined *)
(* on (0..w-1) \X (0..h-1).                                                *)

Pixels(w, h) == (0..(w - 1)) \X (0..(h - 1))

\* cv2.cvtColor(img, cv2.COLOR_BGR2GRAY) on 8-bit data: fixed-point weights
\* of 0.114 B + 0.587 G + 0.299 R with 15 fractional bits.
Gray(c) == (3735 * c[1] + 19235 * c[2] + 9798 * c[3] + 16384) \div 32768

\* _content_mask (lines 719-722): land pixels, gray > 1.
ContentMask(img) == { p \in Pixels(img.w, img.h) : Gray(img.px[p]) > 1 }

\* _content_bbox (lines 725-730): <<x1, y1, x2, y2>> or None.
ContentBBox(mask) ==
    IF mask = {} THEN None
    ELSE << SetMin({ p[1] : p \in mask }), SetMin({ p[2] : p \in mask }),
            SetMax({ p[1] : p \in mask }) + 1, SetMax({ p[2] : p \in mask }) + 1 >>

----------------------------------------------------------------------------
(* _match_pair (lines 732-811)                                             *)

\* threshold: float = 0.85, in percent.
THRESHOLD_PCT == 85

\* Line 756: n_both < round(sfx) * round(sfy) * 0.3
BelowMinContent(n_both) ==
    10 * n_both < 3 * PyRound(step_f2, 2) * PyRound(step_f2, 2)

\* Lines 772-773: the cells (nx, ny) in loop order, (0, 0) included.
RECURSIVE ScanFrom(_, _, _, _, _)
ScanFrom(nx, ny, ny0, nx_end, ny_end) ==
    IF nx >= nx_end THEN <<>>
    ELSE IF ny >= ny_end THEN ScanFrom(nx + 1, ny0, ny0, nx_end, ny_end)
    ELSE <<<<nx, ny>>>> \o ScanFrom(nx, ny + 1, ny0, nx_end, ny_end)

\* A scan that starts at cell 0 on both axes.
ScanCellsFromZero(a, b) == ScanFrom(0, 0, 0, Tiles(a.w), Tiles(a.h))

ScanCells(a, b) ==
    ScanFrom(-(Tiles(b.w) - 1), -(Tiles(b.h) - 1), -(Tiles(b.h) - 1), Tiles(a.w), Tiles(a.h))

\* Lines 787-789: overlap rectangle <<ox1, oy1, ox2, oy2>> in A's coordinates.
OverlapRect(a, b, dx, dy) ==
    << Max2(0, dx), Max2(0, dy), Min2(a.w, dx + b.w), Min2(a.h, dy + b.h) >>

\* Lines 793-801: pixels of A's frame that are land in A and in B moved by (dx, dy).
Both(a, b, dx, dy) ==
    LET r == OverlapRect(a, b, dx, dy)
    IN  { p \in ContentMask(a) :
            /\ r[1] <= p[1] /\ p[1] < r[3] /\ r[2] <= p[2] /\ p[2] < r[4]
            /\ <<p[1] - dx, p[2] - dy>> \in ContentMask(b) }

RECURSIVE SumOver(_, _)
SumOver(S, f) ==
    IF S = {} THEN 0
    ELSE LET x == CHOOSE e \in S : TRUE IN f[x] + SumOver(S \ {x}, f)

\* Line 805: sum over the jointly-land pixels of |gray_a - gray_b|.
DiffSum(a, b, dx, dy) ==
    LET S == Both(a, b, dx, dy)
    IN  SumOver(S, [p \in S |-> Abs(Gray(a.px[p]) - Gray(b.px[<<p[1] - dx, p[2] - dy>>]))])

\* score = 1 - (sum / n) / 255 as the pair <<sum, n>>.
\* score > threshold  <=>  sum * 100 < (100 - pct) * 255 * n
ScoreAbove(sum, n, pct) == sum * 100 < (100 - pct) * 255 * n

\* score(sum1, n1) > score(sum2, n2)
ScoreGreaterOrEqual(sum1, n1, sum2, n2) == sum1 * n2 <= sum2 * n1

ScoreGreater(sum1, n1, sum2, n2) == sum1 * n2 < sum2 * n1

\* Line 774: the cell that is never tested.
SkipCell(nx, ny) == nx = 0 /\ ny = 0

\* Lines 780-784: content bounding boxes do not intersect at this offset.
Pruned(ba, bb, dx, dy) ==
    \/ bb[1] + dx >= ba[3]
    \/ bb[3] + dx <= ba[1]
    \/ bb[2] + dy >= ba[4]
    \/ bb[4] + dy <= ba[2]

\* The loop body without the guards of lines 780-784 and 802-803: every pixel
\* of the overlap rectangle is compared.
TryCellUnpruned(a, b, ba, bb, c, pct, best) ==
    LET dx == GridOffset(c[1])
        dy == GridOffset(c[2])
        r == OverlapRect(a, b, dx, dy)
        S == { p \in Pixels(a.w, a.h) :
                 r[1] <= p[1] /\ p[1] < r[3] /\ r[2] <= p[2] /\ p[2] < r[4] }
        n == Cardinality(S)
        sum == SumOver(S, [p \in S |-> Abs(Gray(a.px[p]) - Gray(b.px[<<p[1] - dx, p[2] - dy>>]))])
    IN  IF SkipCell(c[1], c[2]) THEN best
        ELSE IF r[3] - r[1] <= 0 \/ r[4] - r[2] <= 0 THEN best
        ELSE IF ScoreAbove(sum, n, pct)
                /\ (best = None \/ ScoreGreater(sum, n, best[3], best[4]))
             THEN <<dx, dy, sum, n>>
             ELSE best

\* Lines 774-809: the loop body for one cell; best is None or <<dx, dy, sum, n>>.
TryCell(a, b, ba, bb, c, pct, best) ==
    LET dx == GridOffset(c[1])
        dy == GridOffset(c[2])
        r == OverlapRect(a, b, dx, dy)
        n_both == Cardinality(Both(a, b, dx, dy))
        sum == DiffSum(a, b, dx, dy)
    IN  IF SkipCell(c[1], c[2]) THEN best
        ELSE IF Pruned(ba, bb, dx, dy) THEN best
        ELSE IF r[3] - r[1] <= 0 \/ r[4] - r[2] <= 0 THEN best
        ELSE IF BelowMinContent(n_both) THEN best
        ELSE IF ScoreAbove(sum, n_both, pct)
                /\ (best = None \/ ScoreGreater(sum, n_both, best[3], best[4]))
             THEN <<dx, dy, sum, n_both>>
             ELSE best

RECURSIVE ScanLoop(_, _, _, _, _, _, _)
ScanLoop(cells, a, b, ba, bb, pct, best) ==
    IF cells = <<>> THEN best
    ELSE ScanLoop(Tail(cells), a, b, ba, bb, pct, TryCell(a, b, ba, bb, Head(cells), pct, best))

MatchPair(a, b, pct) ==
    LET ba == ContentBBox(ContentMask(a))
        bb == ContentBBox(ContentMask(b))
    IN  IF ba = None \/ bb = None THEN None
        ELSE ScanLoop(ScanCells(a, b), a, b, ba, bb, pct, None)

----------------------------------------------------------------------------
(* Input images for _match_pair: windows cut out of a larger raster at     *)
(* grid positions, so that two windows show the same pixels where they     *)
(* overlap.                                                                *)

BLACK == <<0, 0, 0>>
DIM == <<0, 0, 5>>                 \* not black, yet gray = 1: not land

\* A textured raster with some sea (black) and some dim pixels.
Terrain(x, y) ==
    IF (x + 3 * y) % 11 = 0 THEN BLACK
    ELSE IF (2 * x + y) % 13 = 0 THEN DIM
    ELSE LET g == 10 + ((x * 53 + y * 101 + x * y * 17) % 240) IN <<g, g, g>>

\* A raster of one colour.
Plain(x, y) == <<100, 100, 100>>

\* A raster whose columns repeat with period 2.
Striped(x, y) == IF x % 2 = 0 THEN <<60, 60, 60>> ELSE <<180, 180, 180>>

Blank(x, y) == BLACK

\* A raster that gets brighter from column to column.
Gradient(x, y) == <<100 + 4 * x, 100 + 4 * x, 100 + 4 * x>>

Texel(t, x, y) ==
    CASE t = "terrain"  -> Terrain(x, y)
      [] t = "plain"    -> Plain(x, y)
      [] t = "striped"  -> Striped(x, y)
      [] t = "gradient" -> Gradient(x, y)
      [] t = "blank"    -> Blank(x, y)

Window(t, ox, oy, w, h) ==
    [w |-> w, h |-> h, px |-> [p \in Pixels(w, h) |-> Texel(t, ox + p[1], oy + p[2])]]

\* img with every pixel outside `keep` black.
Carve(img, keep) ==
    [img EXCEPT !.px = [p \in Pixels(img.w, img.h) |->
                          IF p \in keep THEN img.px[p] ELSE BLACK]]

MatchLib ==
    { Window("terrain", 0, 0, 8, 5),
      Window("terrain", 2, 0, 5, 5),
      Window("terrain", 5, 0, 8, 5),
      Window("terrain", 0, 2, 5, 5),
      Window("terrain", 2, 2, 8, 5),
      Window("terrain", 5, 2, 5, 5),
      Window("plain", 0, 0, 5, 5),
      Window("plain", 0, 0, 8, 5),
      Window("striped", 0, 0, 5, 5),
      Window("striped", 0, 0, 8, 5),
      Window("gradient", 0, 0, 5, 5),
      Carve(Window("plain", 0, 0, 5, 5), { <<0, 0>>, <<1, 0>> }),
      Window("blank", 0, 0, 5, 5) }

(* Raster operations used by _remove_islands and _manual_split.  A mask is *)
(* the set of pixels <<x, y>> whose value is non-zero.                     *)

\* cv2.getStructuringElement(cv2.MORPH_ELLIPSE, (5, 5)) as offsets from the
\* anchor: rows -2 and +2 hold the centre column only, rows -1..1 are full.
ELLIPSE5 == { k \in (-2..2) \X (-2..2) : Abs(k[2]) = 2 => k[1] = 0 }

\* cv2.getStructuringElement(cv2.MORPH_CROSS, (3, 3)).
CROSS3 == { k \in (-1..1) \X (-1..1) : k[1] = 0 \/ k[2] = 0 }

\* The eight neighbours and the pixel itself (connectivity=8).
SQUARE3 == (-1..1) \X (-1..1)

InCanvas(p, w, h) == p[1] >= 0 /\ p[1] < w /\ p[2] >= 0 /\ p[2] < h

\* cv2.dilate(m, K, iterations=1) on a w x h raster: pixels outside the raster
\* never contribute and are never written.
Dilate(S, K, w, h) ==
    { q \in { <<s[1] + k[1], s[2] + k[2]>> : s \in S, k \in K } : InCanvas(q, w, h) }

RECURSIVE DilateN(_, _, _, _, _)
DilateN(S, K, w, h, n) ==
    IF n = 0 THEN S ELSE DilateN(Dilate(S, K, w, h), K, w, h, n - 1)

\* Flood fill of the component of S that contains C, neighbourhood K.
RECURSIVE Grow(_, _, _)
Grow(C, S, K) ==
    LET N == { q \in { <<s[1] + k[1], s[2] + k[2]>> : s \in C, k \in K } : q \in S }
    IN  IF N \subseteq C THEN C ELSE Grow(C \cup N, S, K)

\* First pixel of S in raster order (row by row, left to right).
FirstPixel(S) ==
    CHOOSE p \in S : \A q \in S : p[2] < q[2] \/ (p[2] = q[2] /\ p[1] <= q[1])

\* cv2.connectedComponents: the components of S, labelled 1, 2, ... in the
\* raster order of their first pixels.
RECURSIVE Components(_, _)
Components(S, K) ==
    IF S = {} THEN <<>>
    ELSE LET c == Grow({FirstPixel(S)}, S, K)
         IN  <<c>> \o Components(S \ c, K)

\* 4-neighbour ring of a component: dilate by the cross, drop the inside.
Ring(c, w, h) == Dilate(c, CROSS3, w, h) \ c

\* cv2.distanceTransform(src, cv2.DIST_L2, 3): the 3x3 chamfer approximation
\* of the Euclidean distance.  A horizontal/vertical step costs 0.955 and a
\* diagonal step 1.3693, held as 16-bit fixed point.
HV_DIST == 62587
DIAG_DIST == 89738

ChamferDist(p, q) ==
    LET ax == Abs(p[1] - q[1])
        ay == Abs(p[2] - q[2])
    IN  HV_DIST * (Max2(ax, ay) - Min2(ax, ay)) + DIAG_DIST * Min2(ax, ay)

\* dist_map[p] for src = 0 exactly on `zeros`.
DistanceTransform(zeros, p) == SetMin({ ChamferDist(p, q) : q \in zeros })

\* cv2.circle(barrier, c, 1, v, -1): a filled circle of radius 1 is the
\* centre with its four neighbours, clipped to the raster.
Circle1(c, w, h) == Dilate({c}, CROSS3, w, h)

\* Pixels of the segment from p to q (Bresenham); dx, dy are the absolute
\* extents of the whole segment.
RECURSIVE Bresenham(_, _, _, _, _, _)
Bresenham(p, q, dx, dy, err, acc) ==
    IF p = q THEN acc \cup {p}
    ELSE LET sx == IF p[1] < q[1] THEN 1 ELSE -1
             sy == IF p[2] < q[2] THEN 1 ELSE -1
             stepx == 2 * err > -dy
             stepy == 2 * err < dx
             nx == IF stepx THEN p[1] + sx ELSE p[1]
             ny == IF stepy THEN p[2] + sy ELSE p[2]
             e1 == IF stepx THEN err - dy ELSE err
             e2 == IF stepy THEN e1 + dx ELSE e1
         IN  Bresenham(<<nx, ny>>, q, dx, dy, e2, acc \cup {p})

\* cv2.line(barrier, p, q, v, 3): a stroke of thickness 3, taken as the
\* pixels of the segment together with their four neighbours.
Line3(p, q, w, h) ==
    LET dx == Abs(q[1] - p[1])
        dy == Abs(q[2] - p[2])
    IN  Dilate(Bresenham(p, q, dx, dy, dx - dy, {}), CROSS3, w, h)

----------------------------------------------------------------------------
(* _remove_islands                                                         *)

\* max(1, int(w * 0.05))
Margin(w) == Max2(1, (w * 5) \div 100)

\* The slice labels[cy - my : cy + my + 1, cx - mx : cx + mx + 1].
CenterRegion(w, h) ==
    { p \in Pixels(w, h) :
        /\ p[1] >= w \div 2 - Margin(w) /\ p[1] <= w \div 2 + Margin(w)
        /\ p[2] >= h \div 2 - Margin(h) /\ p[2] <= h \div 2 + Margin(h) }

\* Land pixels of the 4-connected components that touch the centre region.
ContinentCross(img) ==
    LET land == ContentMask(img)
        comps == Components(land, CROSS3)
    IN  UNION { comps[i] : i \in { j \in DOMAIN comps :
                                     comps[j] \cap CenterRegion(img.w, img.h) # {} } }

\* Land pixels of the 8-connected components that touch the centre region.
Continent(img) ==
    LET land == ContentMask(img)
        comps == Components(land, SQUARE3)
    IN  UNION { comps[i] : i \in { j \in DOMAIN comps :
                                     comps[j] \cap CenterRegion(img.w, img.h) # {} } }

\* One iteration of the loop of _remove_islands: the image kept as it is
\* when the centre holds no land, otherwise with the island pixels zeroed.
RemoveIslandsOf(img) ==
    LET land == ContentMask(img)
    IN  IF land \cap CenterRegion(img.w, img.h) = {}
        THEN img
        ELSE [img EXCEPT !.px = [p \in Pixels(img.w, img.h) |->
                                   IF p \in land \ Continent(img) THEN BLACK
                                   ELSE img.px[p]]]

RemoveIslands(ms) == [nm \in DOMAIN ms |-> RemoveIslandsOf(ms[nm])]

----------------------------------------------------------------------------
(* utils.Drawer.paste, the operators (lines 268-317).  A raster is         *)
(* [w, h, px]; a pixel is <<b, g, r>> or <<b, g, r, a>>.                    *)
(*                                                                         *)
(* Lines 287-312 blend in float32.  The operators below compute the same   *)
(* quotients exactly and truncate; the colour bytes (40, 200) and alpha    *)
(* bytes (0, 170, 255) of the rasters pasted on their own are such that    *)
(* the float32 results, truncated by astype(uint8), are the same bytes, and *)
(* so are the alpha bytes 3 and 4 of tiles blended once over the zero      *)
(* canvas; a source of alpha 255 or 0 over an opaque canvas is exact for   *)
(* every colour.                                                           *)

\* Indices picked by a[lo:hi] on an axis of length n (numpy: a negative
\* bound counts from the end).
NpSlice(lo, hi, n) ==
    LET l == IF lo < 0 THEN Max2(lo + n, 0) ELSE Min2(lo, n)
        u == IF hi < 0 THEN Max2(hi + n, 0) ELSE Min2(hi, n)
    IN  l..(u - 1)

\* The left/top bound taken as it comes.
ClampLoNone(x) == x

\* Line 273: x0, y0 = max(0, x), max(0, y)
ClampLo(x) == Max2(0, x)

\* Line 274: x1, y1 = min(bw, x + fw), min(bh, y + fh)
ClampHi(bw, x, fw) == Min2(bw, x + fw)

\* Alpha of a canvas pixel: line 288-292, ones when there is no channel.
AlphaOf(px) == IF Len(px) = 4 THEN px[4] ELSE 255

\* The mean of source and canvas, whatever the alpha.
BlendMean(fg, bg) ==
    [c \in DOMAIN bg |-> IF c = 4 THEN Max2(fg[4], bg[4]) ELSE (fg[c] + bg[c]) \div 2]

\* Lines 287-312 for one pixel: fg over bg.  With a = fg alpha and b = bg
\* alpha as bytes, out_alpha = d / 65025 for d = 255 a + b (255 - a).
Blend(fg, bg) ==
    LET a == fg[4]
        b == AlphaOf(bg)
        d == 255 * a + b * (255 - a)
    IN  [c \in DOMAIN bg |->
            IF c = 4 THEN d \div 255
            ELSE IF d > 0 THEN (255 * a * fg[c] + b * (255 - a) * bg[c]) \div d
            ELSE 0]

\* Lines 268-317: the canvas after self.paste(img, pos, with_alpha=...), and
\* whether numpy raised because the two regions differ in shape.
Paste(cv, img, pos, with_alpha) ==
    LET x0 == ClampLo(pos[1])
        y0 == ClampLo(pos[2])
        x1 == ClampHi(cv.w, pos[1], img.w)
        y1 == ClampHi(cv.h, pos[2], img.h)
        bxs == NpSlice(x0, x1, cv.w)
        bys == NpSlice(y0, y1, cv.h)
        fx0 == x0 - pos[1]
        fy0 == y0 - pos[2]
        fxs == NpSlice(fx0, fx0 + (x1 - x0), img.w)
        fys == NpSlice(fy0, fy0 + (y1 - y0), img.h)
        SrcOf(p) == img.px[<<fx0 + (p[1] - x0), fy0 + (p[2] - y0)>>]
    IN  IF x1 <= x0 \/ y1 <= y0 THEN [img |-> cv, err |-> FALSE]
        ELSE IF Cardinality(bxs) # Cardinality(fxs) \/ Cardinality(bys) # Cardinality(fys)
             THEN [img |-> cv, err |-> TRUE]
        ELSE [img |-> [cv EXCEPT !.px = [p \in Pixels(cv.w, cv.h) |->
                          IF p[1] \in bxs /\ p[2] \in bys
                          THEN IF with_alpha /\ Len(SrcOf(p)) = 4
                               THEN Blend(SrcOf(p), cv.px[p])
                               ELSE SrcOf(p)
                          ELSE cv.px[p]]],
              err |-> FALSE]

----------------------------------------------------------------------------
(* _make_land_alpha and _composite_canvas                                  *)

\* Lines 894-896: BGRA copy of img, alpha 255 on land and 0 elsewhere.
MakeLandAlpha(img) ==
    [img EXCEPT !.px = [p \in Pixels(img.w, img.h) |->
        Append(img.px[p], IF p \in ContentMask(img) THEN 255 ELSE 0)]]

\* (x, y) < (x2, y2) as Python compares tuples.
PosLt(a, b) == a[1] < b[1] \/ (a[1] = b[1] /\ a[2] < b[2])

\* Insertion of nm into a list of names sorted by position; a name comes
\* after the names of the same position that were there before (stable).
RECURSIVE InsertByPos(_, _, _)
InsertByPos(nm, s, pos) ==
    IF s = <<>> THEN <<nm>>
    ELSE IF PosLt(pos[nm], pos[Head(s)]) THEN <<nm>> \o s
    ELSE <<Head(s)>> \o InsertByPos(nm, Tail(s), pos)

\* sorted(positions, key=lambda n: positions[n]); keys = list(positions).
RECURSIVE SortByPos(_, _)
SortByPos(keys, pos) ==
    IF keys = <<>> THEN <<>>
    ELSE InsertByPos(keys[Len(keys)], SortByPos(SubSeq(keys, 1, Len(keys) - 1), pos), pos)

\* Lines 909-911: the pastes of the maps in order, onto cv.
RECURSIVE PasteAll(_, _, _, _)
PasteAll(cv, order, ms, pos) ==
    IF order = <<>> THEN cv
    ELSE PasteAll(Paste(cv, MakeLandAlpha(ms[Head(order)]), pos[Head(order)], TRUE).img,
                  Tail(order), ms, pos)

\* Lines 906-912: black opaque canvas, every map blended at its position.
CompositeCanvas(ms, pos, keys, h, w) ==
    PasteAll([w |-> w, h |-> h, px |-> [p \in Pixels(w, h) |-> <<0, 0, 0, 255>>]],
             SortByPos(keys, pos), ms, pos)

----------------------------------------------------------------------------
(* _manual_split: masks and ownership                                      *)

NONE_OWNER == 0 - 1
UNRESOLVED == 0 - 2

\* The content mask of img written into a w x h canvas at pos (clipped).
PlacedMask(img, pos, w, h) ==
    { q \in { <<p[1] + pos[1], p[2] + pos[2]>> : p \in ContentMask(img) } :
        InCanvas(q, w, h) }

\* The land mask without the dilation.
LandMaskNoDilate(img, pos, w, h) == PlacedMask(img, pos, w, h)

\* Lines 1030-1043: the placed content mask dilated twice by the ellipse.
LandMask(img, pos, w, h) == DilateN(PlacedMask(img, pos, w, h), ELLIPSE5, w, h, 2)

\* Lines 1046-1051: the loop over land_masks, from index i on.
RECURSIVE Accumulate(_, _, _)
Accumulate(ms, i, acc) ==
    IF i \notin DOMAIN ms THEN acc
    ELSE Accumulate(ms, i + 1,
                    [multi |-> acc.multi \cup (acc.any \cap ms[i]),
                     any   |-> acc.any \cup ms[i]])

\* Lines 1061-1066: -1 everywhere, then map i on its exclusive pixels (the
\* last writer wins), then -2 on the overlap.
InitOwner(ms, ov, w, h) ==
    [p \in Pixels(w, h) |->
        IF p \in ov THEN UNRESOLVED
        ELSE LET hit == { i \in DOMAIN ms : p \in ms[i] }
             IN  IF hit = {} THEN NONE_OWNER ELSE SetMax(hit)]

\* owner == i
OwnedBy(own, i) == { p \in DOMAIN own : own[p] = i }

\* if cnt > 0  (the last map that touches the component would win)
CountAny(cnt, best_cnt) == cnt > 0

\* if cnt > best_cnt
CountBetter(cnt, best_cnt) == cnt > best_cnt

\* Lines 1185-1190: the loop over the maps, from index i on;
\* best = <<best_map, best_cnt>>.
RECURSIVE BestByCount(_, _, _, _)
BestByCount(ring, excl, i, best) ==
    IF i \notin DOMAIN excl THEN best
    ELSE LET cnt == Cardinality(ring \cap excl[i])
         IN  BestByCount(ring, excl, i + 1,
                         IF CountBetter(cnt, best[2]) THEN <<i, cnt>> ELSE best)

\* float(dist_map[cc_bool].min())
MinDist(c, excl_i) == SetMin({ DistanceTransform(excl_i, p) : p \in c })

\* Lines 1199-1211: the loop over the maps, from index i on;
\* best = <<best_map_dt, best_dist>>; best_dist is np.inf exactly while
\* best_map_dt is still -1, and every distance is below np.inf.
RECURSIVE BestByDist(_, _, _, _)
BestByDist(c, excl, i, best) ==
    IF i \notin DOMAIN excl THEN best
    ELSE IF excl[i] = {} THEN BestByDist(c, excl, i + 1, best)
    ELSE LET d == MinDist(c, excl[i])
         IN  BestByDist(c, excl, i + 1,
                        IF best[1] < 0 \/ d < best[2] THEN <<i, d>> ELSE best)

\* One iteration that reads the exclusive regions from the owner array as it
\* is now, not from the snapshot.
AssignComponentLive(own, c, excl, w, h) ==
    LET live == [i \in DOMAIN excl |-> OwnedBy(own, i)]
        best_map == BestByCount(Ring(c, w, h), live, 0, <<NONE_OWNER, 0>>)[1]
        best_map_dt == BestByDist(c, live, 0, <<NONE_OWNER, 0>>)[1]
        to == IF best_map >= 0 THEN best_map ELSE best_map_dt
    IN  IF to >= 0 THEN [p \in DOMAIN own |-> IF p \in c THEN to ELSE own[p]]
        ELSE own

\* Lines 1177-1214, one iteration: the owner array after component c.
AssignComponent(own, c, excl, w, h) ==
    LET best_map == BestByCount(Ring(c, w, h), excl, 0, <<NONE_OWNER, 0>>)[1]
        best_map_dt == BestByDist(c, excl, 0, <<NONE_OWNER, 0>>)[1]
        to == IF best_map >= 0 THEN best_map ELSE best_map_dt
    IN  IF to >= 0 THEN [p \in DOMAIN own |-> IF p \in c THEN to ELSE own[p]]
        ELSE own

\* Insertion of index i into a list of indices sorted by name.
RECURSIVE InsertByName(_, _, _)
InsertByName(i, s, nl) ==
    IF s = <<>> THEN <<i>>
    ELSE IF StrLt(nl[i + 1], nl[Head(s) + 1]) THEN <<i>> \o s
    ELSE <<Head(s)>> \o InsertByName(i, Tail(s), nl)

RECURSIVE SortByName(_, _)
SortByName(idx, nl) ==
    IF idx = <<>> THEN <<>> ELSE InsertByName(Head(idx), SortByName(Tail(idx), nl), nl)

\* range(n_maps)
IndexOrder(nl) == [k \in 1..Len(nl) |-> k - 1]

\* The maps taken in index order instead.
AlphaOrderByIndex(nl) == IndexOrder(nl)

\* sorted(range(n_maps), key=lambda i: names_list[i])
AlphaOrder(nl) == SortByName(IndexOrder(nl), nl)

\* The loop over alpha_order left out.
WallPassSkipped(order, ms, st) == st.own

\* Lines 1221-1224: the loop over alpha_order; st = [own, wu].
RECURSIVE WallPass(_, _, _)
WallPass(order, ms, st) ==
    IF order = <<>> THEN st.own
    ELSE LET i == Head(order)
             assign == st.wu \cap ms[i]
         IN  WallPass(Tail(order), ms,
                      [own |-> [p \in DOMAIN st.own |-> IF p \in assign THEN i ELSE st.own[p]],
                       wu  |-> st.wu \ assign])

\* fillable = ~wall  (any owner)
FillableAnyOwner(own, wl) == { p \in DOMAIN own : p \notin wl }

\* The overlap zone with the wall left in it.
FillableThroughWall(own, wl) == { p \in DOMAIN own : own[p] = UNRESOLVED }

\* Line 1162: fillable = (owner == -2) & ~wall
Fillable(own, wl) == { p \in DOMAIN own : own[p] = UNRESOLVED /\ p \notin wl }

----------------------------------------------------------------------------
(* Groups of maps offered to _stitch_group, and the events of the barrier  *)
(* window.                                                                 *)

\* Two maps cut from the same terrain two pixels apart, each with land near
\* its centre and stray land elsewhere.
GroupIslands ==
    (MapNameList[1] :> Carve(Window("terrain", 0, 0, 5, 5),
                             { <<1, 1>>, <<1, 3>>, <<2, 4>>, <<3, 0>>, <<4, 3>> }))
    @@ (MapNameList[2] :> Carve(Window("terrain", 2, 0, 5, 5),
                                { <<0, 4>>, <<1, 0>>, <<2, 3>>, <<4, 2>> }))

\* Two maps cut from the same terrain two pixels apart, with little land and
\* none of it near a centre.
GroupSparse ==
    (MapNameList[2] :> Carve(Window("terrain", 0, 0, 5, 5),
                             { <<0, 1>>, <<2, 4>>, <<3, 4>> }))
    @@ (MapNameList[3] :> Carve(Window("terrain", 2, 0, 5, 5),
                                { <<0, 4>>, <<1, 4>>, <<3, 4>> }))

\* Two maps cut from the same terrain, shifted by one cell in x and in y.
GroupDiagonal ==
    (MapNameList[3] :> Window("terrain", 0, 0, 5, 5))
    @@ (MapNameList[4] :> Window("terrain", 2, 2, 5, 5))

\* Three maps cut from the same terrain in a row, each two pixels right of
\* the one before; the first and the third share no content.
GroupChain ==
    (MapNameList[1] :> Carve(Window("terrain", 0, 0, 5, 5),
                             { <<0, 1>>, <<2, 4>>, <<3, 4>> }))
    @@ (MapNameList[2] :> Carve(Window("terrain", 2, 0, 5, 5),
                                { <<0, 4>>, <<1, 4>>, <<3, 4>>, <<4, 4>> }))
    @@ (MapNameList[3] :> Carve(Window("terrain", 4, 0, 5, 5),
                                { <<1, 4>>, <<2, 4>>, <<4, 2>> }))

\* Two maps that share nothing.
GroupApart ==
    (MapNameList[3] :> Window("terrain", 0, 0, 5, 5))
    @@ (MapNameList[5] :> Window("striped", 0, 0, 5, 5))

\* Three windows of one raster; the third lies off the first one's grid.
GroupCycle ==
    (MapNameList[1] :> Window("terrain", 0, 0, 8, 5))
    @@ (MapNameList[2] :> Window("terrain", 2, 0, 5, 5))
    @@ (MapNameList[3] :> Window("terrain", 4, 0, 5, 5))

GroupLib == { GroupIslands, GroupSparse, GroupDiagonal, GroupChain, GroupApart, GroupCycle }

\* Number of mouse events delivered to mouse_cb before a key ends the loop.
MaxEvents == 3

\* Canvas points the mouse can be at (to_canvas_pt may fall off the canvas).
MousePts == { <<0, 3>>, <<4, 2>>, <<7, 0>>, <<-1, 5>> }

ENTER == 13
ESC == 27
\* cv2.waitKey(30) & 0xFF when no key was pressed.
NO_KEY == 255

SplitIdle ==
    /\ maps = EmptyFn
    /\ names_list = <<>>
    /\ canvas_w = 0
    /\ canvas_h = 0
    /\ land_masks = EmptyFn
    /\ any_land = {}
    /\ overlap = {}
    /\ stitched_png = None
    /\ stitch_canvas = None
    /\ owner = EmptyFn
    /\ barrier = {}
    /\ drawing = FALSE
    /\ erasing = FALSE
    /\ last_pt = None
    /\ n_events = 0
    /\ event = "none"
    /\ key = 0
    /\ wall = {}
    /\ cc = <<>>
    /\ exclusive_masks = EmptyFn
    /\ cc_id = 0
    /\ fin = None
    /\ exported = 0
    /\ spc = "idle"

----------------------------------------------------------------------------
MatchIdle ==
    /\ img_a = None
    /\ img_b = None
    /\ result = None
    /\ mpc = "idle"

LayoutIdle ==
    /\ dir_files = {}
    /\ shape = EmptyFn
    /\ match = EmptyFn
    /\ names = <<>>
    /\ edges = EmptyFn
    /\ positions = EmptyFn
    /\ pos_keys = <<>>
    /\ queue = <<>>
    /\ comp = <<>>
    /\ components = <<>>
    /\ x_cursor = 0
    /\ comp_idx = 0
    /\ parent = EmptyFn
    /\ lpc = "idle"
    /\ run_no = 0
    /\ first_layout = None

IslandIdle ==
    /\ isl_heap = EmptyFn
    /\ isl_maps = EmptyFn
    /\ isl_orig = EmptyFn
    /\ isl_result = EmptyFn
    /\ isl_todo = <<>>
    /\ isl_log = <<>>
    /\ ipc = "idle"

PrepIdle ==
    /\ pd_walk = <<>>
    /\ pd_next = 0
    /\ groups = EmptyFn
    /\ pd_warnings = <<>>
    /\ ppc = "idle"

PasteIdle ==
    /\ cv_img = None
    /\ pst_log = <<>>
    /\ pst_snaps = <<>>
    /\ pst_done = 0
    /\ pst_err = FALSE

AlignIdle ==
    /\ file_list = <<>>
    /\ step = 0
    /\ canvas = None
    /\ all_tiles = <<>>
    /\ manual_tiles = <<>>
    /\ apc = "idle"
    /\ pasted = <<>>
    /\ n_clicks = 0
    /\ hits = <<>>
    /\ akey = 0

ExtraIdle == IslandIdle /\ PrepIdle /\ PasteIdle /\ AlignIdle

MatchInit ==
    /\ img_a \in MatchLib
    /\ img_b \in MatchLib
    /\ result = None
    /\ mpc = "call"
    /\ LayoutIdle
    /\ SplitIdle
    /\ ExtraIdle

\* result = self._match_pair(maps[na], masks[na], maps[nb], masks[nb])
M_MatchPair ==
    /\ mpc = "call"
    /\ result' = MatchPair(img_a, img_b, THRESHOLD_PCT)
    /\ mpc' = "ret"
    /\ UNCHANGED <<img_a, img_b, nonMatchVars>>

MatchNext == M_MatchPair

SpecMatch == MatchInit /\ [][MatchNext]_vars

----------------------------------------------------------------------------
(* The layout as a state machine: one run of _load_normal_maps and         *)
(* _build_layout, then a second, independent run on the same directory.    *)

\* What _match_pair returns for the ordered pair (a, b) of the input maps:
\* None, or a grid-aligned pixel offset <<dx, dy>>.  The value for (b, a) is
\* only read when the caller passes the maps the other way round.
MatchTables(nms) ==
    LET ordered == { p \in nms \X nms : StrLt(p[1] \o PNG, p[2] \o PNG) }
        Choices(p) ==
            {None} \cup
            { <<GridOffset(c[1]), GridOffset(c[2])>> :
                c \in LayoutCells \cap FeasibleCells(ShapeOf(p[1]), ShapeOf(p[2])) }
        Neg(v) == IF v = None THEN None ELSE <<-v[1], -v[2]>>
        Tables == { f \in [ordered -> UNION { Choices(p) : p \in ordered }] :
                        \A p \in ordered : f[p] \in Choices(p) }
    IN  { [p \in { q \in nms \X nms : q[1] # q[2] } |->
              IF p \in ordered THEN t[p] ELSE Neg(t[<<p[2], p[1]>>])] : t \in Tables }

LayoutStart ==
    /\ names = <<>>
    /\ edges = EmptyFn
    /\ positions = EmptyFn
    /\ pos_keys = <<>>
    /\ queue = <<>>
    /\ comp = <<>>
    /\ components = <<>>
    /\ x_cursor = 0
    /\ comp_idx = 0
    /\ parent = EmptyFn
    /\ lpc = "load"

LayoutInit ==
    /\ \E n \in 2..MaxMaps :
          /\ dir_files = { nm \o PNG : nm \in MapNames(n) } \cup OtherFiles
          /\ shape = [nm \in MapNames(n) |-> ShapeOf(nm)]
          /\ match \in MatchTables(MapNames(n))
    /\ LayoutStart
    /\ run_no = 1
    /\ first_layout = None
    /\ MatchIdle
    /\ SplitIdle
    /\ ExtraIdle

\* run(): all_maps = self._load_normal_maps(); os.listdir returns the files
\* in an arbitrary order.
L_Load ==
    /\ lpc = "load"
    /\ \E listing \in Listings(dir_files) : names' = LoadNormalMaps(listing)
    /\ lpc' = "match"
    /\ UNCHANGED <<dir_files, shape, match, edges, positions, pos_keys, queue, comp,
                   components, x_cursor, comp_idx, parent, run_no, first_layout, nonLayoutVars>>

\* Lines 819-840: pairwise matching fills the adjacency lists.
L_Match ==
    /\ lpc = "match"
    /\ edges' = BuildEdges(names, match)
    /\ lpc' = "outer"
    /\ UNCHANGED <<dir_files, shape, match, names, positions, pos_keys, queue, comp,
                   components, x_cursor, comp_idx, parent, run_no, first_layout, nonLayoutVars>>

\* Lines 846-851: the next root that has no position yet starts a component.
L_Start ==
    /\ lpc = "outer"
    /\ Range(names) \ DOMAIN positions # {}
    /\ LET start == NextStart(names, DOMAIN positions)
       IN  /\ positions' = positions @@ (start :> <<0, 0>>)
           /\ pos_keys' = Append(pos_keys, start)
           /\ queue' = <<start>>
    /\ comp' = <<>>
    /\ lpc' = "inner"
    /\ UNCHANGED <<dir_files, shape, match, names, edges, components, x_cursor,
                   comp_idx, parent, run_no, first_layout, nonLayoutVars>>

\* Lines 852-860: one iteration of `while queue`; the component is appended
\* to components when the queue runs empty.
L_Visit ==
    /\ lpc = "inner"
    /\ queue # <<>>
    /\ LET cur == Head(queue)
           st == VisitEdges(edges[cur], cur,
                            [pos |-> positions, keys |-> pos_keys,
                             q |-> Tail(queue), par |-> parent])
       IN  /\ positions' = st.pos
           /\ pos_keys' = st.keys
           /\ queue' = st.q
           /\ parent' = st.par
           /\ IF st.q = <<>>
              THEN /\ components' = Append(components, Append(comp, cur))
                   /\ comp' = <<>>
                   /\ lpc' = "outer"
              ELSE /\ components' = components
                   /\ comp' = Append(comp, cur)
                   /\ lpc' = "inner"
    /\ UNCHANGED <<dir_files, shape, match, names, edges, x_cursor, comp_idx,
                   run_no, first_layout, nonLayoutVars>>

\* Line 846 falls through: every name has a position; lines 862-863.
L_BfsDone ==
    /\ lpc = "outer"
    /\ Range(names) \subseteq DOMAIN positions
    /\ x_cursor' = 0
    /\ comp_idx' = 1
    /\ lpc' = "norm"
    /\ UNCHANGED <<dir_files, shape, match, names, edges, positions, pos_keys, queue,
                   comp, components, parent, run_no, first_layout, nonLayoutVars>>

\* Lines 864-872: one iteration of the normalisation loop.
L_Normalize ==
    /\ lpc = "norm"
    /\ comp_idx <= Len(components)
    /\ LET c == components[comp_idx]
           min_x == SetMin({ positions[nm][1] : nm \in Range(c) })
           min_y == SetMin({ positions[nm][2] : nm \in Range(c) })
           npos == [nm \in DOMAIN positions |->
                      IF nm \in Range(c)
                      THEN NormPos(positions[nm][1], positions[nm][2], min_x, min_y, x_cursor)
                      ELSE positions[nm]]
       IN  /\ positions' = npos
           /\ x_cursor' = NextCursor(MaxRight(c, npos, shape, 0))
    /\ comp_idx' = comp_idx + 1
    /\ UNCHANGED <<dir_files, shape, match, names, edges, pos_keys, queue, comp,
                   components, parent, lpc, run_no, first_layout, nonLayoutVars>>

\* Line 880: return positions.
L_Return ==
    /\ lpc = "norm"
    /\ comp_idx > Len(components)
    /\ lpc' = "done"
    /\ UNCHANGED <<dir_files, shape, match, names, edges, positions, pos_keys, queue,
                   comp, components, x_cursor, comp_idx, parent, run_no, first_layout, nonLayoutVars>>

\* A second, independent run of the tool on the same directory.
L_Rerun ==
    /\ lpc = "done"
    /\ run_no = 1
    /\ first_layout' = <<pos_keys, positions>>
    /\ run_no' = 2
    /\ names' = <<>>
    /\ edges' = EmptyFn
    /\ positions' = EmptyFn
    /\ pos_keys' = <<>>
    /\ queue' = <<>>
    /\ comp' = <<>>
    /\ components' = <<>>
    /\ x_cursor' = 0
    /\ comp_idx' = 0
    /\ parent' = EmptyFn
    /\ lpc' = "load"
    /\ UNCHANGED <<dir_files, shape, match, nonLayoutVars>>

LayoutNext ==
    \/ L_Load
    \/ L_Match
    \/ L_Start
    \/ L_Visit
    \/ L_BfsDone
    \/ L_Normalize
    \/ L_Return
    \/ L_Rerun

SpecLayout == LayoutInit /\ [][LayoutNext]_vars

----------------------------------------------------------------------------
(* _stitch_group on one group: layout, island removal, barrier window,     *)
(* partition, export.                                                      *)

StitchInit ==
    /\ maps \in GroupLib
    /\ dir_files = { nm \o PNG : nm \in DOMAIN maps }
    /\ shape = [nm \in DOMAIN maps |-> <<maps[nm].w, maps[nm].h>>]
    /\ match = [p \in { q \in (DOMAIN maps) \X (DOMAIN maps) : q[1] # q[2] } |->
                  MatchPair(maps[p[1]], maps[p[2]], THRESHOLD_PCT)]
    /\ LayoutStart
    /\ run_no = 1
    /\ first_layout = None
    /\ MatchIdle
    /\ ExtraIdle
    /\ names_list = <<>>
    /\ canvas_w = 0
    /\ canvas_h = 0
    /\ land_masks = EmptyFn
    /\ any_land = {}
    /\ overlap = {}
    /\ stitched_png = None
    /\ stitch_canvas = None
    /\ owner = EmptyFn
    /\ barrier = {}
    /\ drawing = FALSE
    /\ erasing = FALSE
    /\ last_pt = None
    /\ n_events = 0
    /\ event = "none"
    /\ key = 0
    /\ wall = {}
    /\ cc = <<>>
    /\ exclusive_masks = EmptyFn
    /\ cc_id = 0
    /\ fin = None
    /\ exported = 0
    /\ spc = "layout"

\* Lines 918-931: names_list and the canvas size, once _build_layout
\* returned; the composite of the maps, written to the stitched file.
S_Composite ==
    /\ spc = "layout"
    /\ lpc = "done"
    /\ names_list' = pos_keys
    /\ canvas_w' = SetMax({ positions[nm][1] + maps[nm].w : nm \in DOMAIN positions })
    /\ canvas_h' = SetMax({ positions[nm][2] + maps[nm].h : nm \in DOMAIN positions })
    /\ stitch_canvas' = CompositeCanvas(maps, positions, pos_keys, canvas_h', canvas_w')
    /\ stitched_png' = stitch_canvas'
    /\ spc' = "islands"
    /\ UNCHANGED <<maps, land_masks, any_land, overlap, drawVars, assignVars,
                   exportVars, layoutVars, matchVars, extraVars>>

\* Line 935: maps = self._remove_islands(maps)
S_RemoveIslands ==
    /\ spc = "islands"
    /\ maps' = RemoveIslands(maps)
    /\ spc' = "recomposite"
    /\ UNCHANGED <<names_list, canvas_w, canvas_h, land_masks, any_land, overlap,
                   stitched_png, stitch_canvas,
                   drawVars, assignVars, exportVars, layoutVars, matchVars, extraVars>>

\* The canvas handed on as the first composite left it.
S_RecompositeSkipped ==
    /\ spc = "recomposite"
    /\ spc' = "split"
    /\ UNCHANGED <<maps, names_list, canvas_w, canvas_h, land_masks, any_land, overlap,
                   stitched_png, stitch_canvas,
                   drawVars, assignVars, exportVars, layoutVars, matchVars, extraVars>>

\* Line 938: canvas = self._composite_canvas(maps, positions, canvas_h, canvas_w)
S_Recomposite ==
    /\ spc = "recomposite"
    /\ stitch_canvas' = CompositeCanvas(maps, positions, pos_keys, canvas_h, canvas_w)
    /\ spc' = "split"
    /\ UNCHANGED <<maps, names_list, canvas_w, canvas_h, land_masks, any_land, overlap,
                   stitched_png,
                   drawVars, assignVars, exportVars, layoutVars, matchVars, extraVars>>

\* Lines 1022-1071: land masks, overlap, then either the export as-is or the
\* ownership array and an empty barrier.
S_SplitBegin ==
    /\ spc = "split"
    /\ LET ms == [i \in 0..(Len(names_list) - 1) |->
                    LandMask(maps[names_list[i + 1]], positions[names_list[i + 1]],
                             canvas_w, canvas_h)]
           acc == Accumulate(ms, 0, [multi |-> {}, any |-> {}])
       IN  /\ land_masks' = ms
           /\ any_land' = acc.any
           /\ overlap' = acc.multi
           /\ IF acc.multi = {}
              THEN /\ fin' = ms
                   /\ exported' = exported + 1
                   /\ spc' = "exported"
                   /\ owner' = owner
              ELSE /\ owner' = InitOwner(ms, acc.multi, canvas_w, canvas_h)
                   /\ spc' = "draw"
                   /\ UNCHANGED exportVars
    /\ UNCHANGED <<maps, names_list, canvas_w, canvas_h, stitched_png, stitch_canvas,
                   drawVars, wall, cc, exclusive_masks, cc_id,
                   layoutVars, matchVars, extraVars>>

\* mouse_cb, cv2.EVENT_LBUTTONDOWN at canvas point p.
S_LButtonDown(p) ==
    /\ spc = "draw"
    /\ n_events < MaxEvents
    /\ drawing' = TRUE
    /\ last_pt' = p
    /\ barrier' = barrier \cup Circle1(p, canvas_w, canvas_h)
    /\ n_events' = n_events + 1
    /\ event' = "EVENT_LBUTTONDOWN"
    /\ UNCHANGED <<erasing, key, stitchVars, assignVars, exportVars, spc,
                   layoutVars, matchVars, extraVars>>

\* mouse_cb, cv2.EVENT_RBUTTONDOWN at canvas point p.
S_RButtonDown(p) ==
    /\ spc = "draw"
    /\ n_events < MaxEvents
    /\ erasing' = TRUE
    /\ last_pt' = p
    /\ barrier' = barrier \ Circle1(p, canvas_w, canvas_h)
    /\ n_events' = n_events + 1
    /\ event' = "EVENT_RBUTTONDOWN"
    /\ UNCHANGED <<drawing, key, stitchVars, assignVars, exportVars, spc,
                   layoutVars, matchVars, extraVars>>

\* mouse_cb, cv2.EVENT_MOUSEMOVE at canvas point p.
S_MouseMove(p) ==
    /\ spc = "draw"
    /\ n_events < MaxEvents
    /\ IF drawing /\ last_pt # None
       THEN /\ barrier' = barrier \cup Line3(last_pt, p, canvas_w, canvas_h)
            /\ last_pt' = p
       ELSE IF erasing /\ last_pt # None
       THEN /\ barrier' = barrier \ Line3(last_pt, p, canvas_w, canvas_h)
            /\ last_pt' = p
       ELSE UNCHANGED <<barrier, last_pt>>
    /\ n_events' = n_events + 1
    /\ event' = "EVENT_MOUSEMOVE"
    /\ UNCHANGED <<drawing, erasing, key, stitchVars, assignVars, exportVars, spc,
                   layoutVars, matchVars, extraVars>>

\* A button-up branch that ends drawing only: erasing stays active.
S_ButtonUpLeftOnly ==
    /\ spc = "draw"
    /\ n_events < MaxEvents
    /\ drawing' = FALSE
    /\ last_pt' = IF erasing THEN last_pt ELSE None
    /\ n_events' = n_events + 1
    /\ event' = "EVENT_BUTTONUP"
    /\ UNCHANGED <<erasing, barrier, key, stitchVars, assignVars, exportVars, spc,
                   layoutVars, matchVars, extraVars>>

\* mouse_cb, cv2.EVENT_LBUTTONUP or cv2.EVENT_RBUTTONUP.
S_ButtonUp ==
    /\ spc = "draw"
    /\ n_events < MaxEvents
    /\ drawing' = FALSE
    /\ erasing' = FALSE
    /\ last_pt' = None
    /\ n_events' = n_events + 1
    /\ event' = "EVENT_BUTTONUP"
    /\ UNCHANGED <<barrier, key, stitchVars, assignVars, exportVars, spc,
                   layoutVars, matchVars, extraVars>>

\* ESC exports the land masks and goes on to step 4 instead of returning.
S_EscNoReturn ==
    /\ spc = "draw"
    /\ key' = ESC
    /\ fin' = land_masks
    /\ exported' = exported + 1
    /\ spc' = "final"
    /\ UNCHANGED <<barrier, drawing, erasing, last_pt, n_events, event, stitchVars,
                   assignVars, layoutVars, matchVars, extraVars>>

\* Lines 1133-1139: ESC exports the land masks as they are.
S_Esc ==
    /\ spc = "draw"
    /\ key' = ESC
    /\ fin' = land_masks
    /\ exported' = exported + 1
    /\ spc' = "exported"
    /\ UNCHANGED <<barrier, drawing, erasing, last_pt, n_events, event, stitchVars,
                   assignVars, layoutVars, matchVars, extraVars>>

\* Lines 1131-1132 (k = ENTER) or 1140-1141 (window closed, k = NO_KEY), then
\* lines 1158-1172: wall, fillable components, snapshot of the exclusive masks.
S_Confirm(k) ==
    /\ spc = "draw"
    /\ key' = k
    /\ LET wl == Dilate(barrier, CROSS3, canvas_w, canvas_h)
       IN  /\ wall' = wl
           /\ cc' = Components(Fillable(owner, wl), CROSS3)
    /\ exclusive_masks' = [i \in DOMAIN land_masks |-> OwnedBy(owner, i)]
    /\ cc_id' = 1
    /\ spc' = "assign"
    /\ UNCHANGED <<barrier, drawing, erasing, last_pt, n_events, event, owner,
                   stitchVars,
                   exportVars, layoutVars, matchVars, extraVars>>

\* Lines 1177-1214: one iteration of the loop over the components.
S_AssignComponent ==
    /\ spc = "assign"
    /\ cc_id <= Len(cc)
    /\ owner' = AssignComponent(owner, cc[cc_id], exclusive_masks, canvas_w, canvas_h)
    /\ cc_id' = cc_id + 1
    /\ UNCHANGED <<wall, cc, exclusive_masks, stitchVars, drawVars, exportVars, spc,
                   layoutVars, matchVars, extraVars>>

\* Lines 1216-1225: what is still unresolved goes to the alphabetically
\* first map that has land there.
S_WallPass ==
    /\ spc = "assign"
    /\ cc_id > Len(cc)
    /\ LET wall_unresolved == OwnedBy(owner, UNRESOLVED) \cap any_land
       IN  owner' = IF wall_unresolved # {}
                    THEN WallPass(AlphaOrder(names_list), land_masks,
                                  [own |-> owner, wu |-> wall_unresolved])
                    ELSE owner
    /\ spc' = "final"
    /\ UNCHANGED <<wall, cc, exclusive_masks, cc_id, stitchVars, drawVars, exportVars,
                   layoutVars, matchVars, extraVars>>

\* Lines 1230-1232: fin = [(owner == i) ...]; _export_split_maps(..., fin, ...)
S_Export ==
    /\ spc = "final"
    /\ fin' = [i \in DOMAIN land_masks |-> OwnedBy(owner, i)]
    /\ exported' = exported + 1
    /\ spc' = "exported"
    /\ UNCHANGED <<stitchVars, drawVars, assignVars, layoutVars, matchVars, extraVars>>

StitchNext ==
    \/ L_Load
    \/ L_Match
    \/ L_Start
    \/ L_Visit
    \/ L_BfsDone
    \/ L_Normalize
    \/ L_Return
    \/ S_Composite
    \/ S_RemoveIslands
    \/ S_Recomposite
    \/ S_SplitBegin
    \/ \E p \in MousePts : S_LButtonDown(p)
    \/ \E p \in MousePts : S_RButtonDown(p)
    \/ \E p \in MousePts : S_MouseMove(p)
    \/ S_ButtonUp
    \/ S_Esc
    \/ \E k \in {ENTER, NO_KEY} : S_Confirm(k)
    \/ S_AssignComponent
    \/ S_WallPass
    \/ S_Export

SpecStitch == StitchInit /\ [][StitchNext]_vars

----------------------------------------------------------------------------
(* _remove_islands (lines 943-999) step by step, on groups of maps of its   *)
(* own.  Arrays live in a heap so that img.copy() and the in-place write    *)
(* out[island_mask] = 0 act on identified objects.                          *)

\* Number of maps in a group handed to _remove_islands.
MaxIslandMaps == 2

\* An alias instead of a copy.
ImgAlias(h, id) == id

\* img.copy(): the id of the new array.
ImgCopy(h, id) == Cardinality(DOMAIN h) + 1

\* The heap once the array `new` holds what the array `id` holds.
Alloc(h, id, new) == [k \in DOMAIN h \cup {new} |-> IF k = new THEN h[id] ELSE h[k]]

\* Line 990: out[island_mask] = 0
ZeroOut(img, mask) ==
    [img EXCEPT !.px = [p \in Pixels(img.w, img.h) |->
                          IF p \in mask THEN BLACK ELSE img.px[p]]]

\* Every component counts as touching the centre.
CenterLabelsAll(img) == DOMAIN Components(ContentMask(img), SQUARE3)

\* Lines 966-972: labels of the components found in the centre region.
CenterLabels(img) ==
    LET comps == Components(ContentMask(img), SQUARE3)
    IN  { j \in DOMAIN comps : comps[j] \cap CenterRegion(img.w, img.h) # {} }

\* Line 989: island_mask = (land > 0) & (continent == 0)
IslandMask(img) == ContentMask(img) \ Continent(img)

\* Pixels of an 8 x 5 map that may hold land: the centre pixel, a corner of
\* the centre region, a pixel diagonal to that corner, pixels far from the
\* centre, and one dim pixel (not land, not black).
IslandCand == { <<4, 2>>, <<3, 1>>, <<2, 0>>, <<0, 4>>, <<1, 4>>, <<7, 0>>, <<6, 1>> }

IslandLib == { Carve(Window("terrain", 0, 0, 8, 5), S) : S \in SUBSET IslandCand }

\* Maps that follow the first one in a group: one with an island, one with
\* an empty centre.
IslandSecond ==
    { Carve(Window("terrain", 0, 0, 5, 5), { <<2, 2>>, <<4, 4>> }),
      Carve(Window("terrain", 0, 0, 5, 5), { <<0, 4>>, <<4, 0>> }) }

nonIslandVars == <<layoutVars, matchVars, splitVars, prepVars, pasteVars, alignVars>>

IslandInit ==
    /\ \E n \in 1..MaxIslandMaps : \E first \in IslandLib : \E rest \in [2..n -> IslandSecond] :
          LET imgs == [k \in 1..n |-> IF k = 1 THEN first ELSE rest[k]]
              nms == { MapNameList[k] : k \in 1..n }
              IdOf(nm) == CHOOSE k \in 1..n : MapNameList[k] = nm
          IN  /\ isl_heap = imgs
              /\ isl_maps = [nm \in nms |-> IdOf(nm)]
              /\ isl_orig = [nm \in nms |-> imgs[IdOf(nm)]]
              /\ isl_todo = [k \in 1..n |-> MapNameList[k]]
    /\ isl_result = EmptyFn
    /\ isl_log = <<>>
    /\ ipc = "loop"
    /\ LayoutIdle
    /\ MatchIdle
    /\ SplitIdle
    /\ PrepIdle
    /\ PasteIdle
    /\ AlignIdle

\* Lines 974-978: no land at the centre, the map is kept as it is.
I_KeepAll ==
    /\ ipc = "loop"
    /\ isl_todo # <<>>
    /\ LET nm == Head(isl_todo)
           id == isl_maps[nm]
           new == ImgCopy(isl_heap, id)
       IN  /\ CenterLabels(isl_heap[id]) = {}
           /\ isl_heap' = Alloc(isl_heap, id, new)
           /\ isl_result' = [k \in DOMAIN isl_result \cup {nm} |->
                               IF k = nm THEN new ELSE isl_result[k]]
           /\ isl_log' = Append(isl_log, <<nm, "warn", 0>>)
    /\ isl_todo' = Tail(isl_todo)
    /\ UNCHANGED <<isl_maps, isl_orig, ipc, nonIslandVars>>

\* Lines 980-995: island pixels are zeroed in a copy.
I_Erase ==
    /\ ipc = "loop"
    /\ isl_todo # <<>>
    /\ LET nm == Head(isl_todo)
           id == isl_maps[nm]
           img == isl_heap[id]
           new == ImgCopy(isl_heap, id)
           heap1 == Alloc(isl_heap, id, new)
       IN  /\ CenterLabels(img) # {}
           /\ Cardinality(IslandMask(img)) > 0
           /\ isl_heap' = [heap1 EXCEPT ![new] = ZeroOut(heap1[new], IslandMask(img))]
           /\ isl_result' = [k \in DOMAIN isl_result \cup {nm} |->
                               IF k = nm THEN new ELSE isl_result[k]]
           /\ isl_log' = Append(isl_log, <<nm, "removed", Cardinality(IslandMask(img))>>)
    /\ isl_todo' = Tail(isl_todo)
    /\ UNCHANGED <<isl_maps, isl_orig, ipc, nonIslandVars>>

\* Lines 996-997: nothing to remove.
I_KeepClean ==
    /\ ipc = "loop"
    /\ isl_todo # <<>>
    /\ LET nm == Head(isl_todo)
           id == isl_maps[nm]
           new == ImgCopy(isl_heap, id)
       IN  /\ CenterLabels(isl_heap[id]) # {}
           /\ Cardinality(IslandMask(isl_heap[id])) = 0
           /\ isl_heap' = Alloc(isl_heap, id, new)
           /\ isl_result' = [k \in DOMAIN isl_result \cup {nm} |->
                               IF k = nm THEN new ELSE isl_result[k]]
    /\ isl_todo' = Tail(isl_todo)
    /\ UNCHANGED <<isl_maps, isl_orig, isl_log, ipc, nonIslandVars>>

\* Line 999: return result
I_Return ==
    /\ ipc = "loop"
    /\ isl_todo = <<>>
    /\ ipc' = "ret"
    /\ UNCHANGED <<isl_heap, isl_maps, isl_orig, isl_result, isl_todo, isl_log, nonIslandVars>>

IslandNext ==
    \/ I_KeepAll
    \/ I_Erase
    \/ I_KeepClean
    \/ I_Return

SpecIslands == IslandInit /\ [][IslandNext]_vars

----------------------------------------------------------------------------
(* MergeMapPage._prepare_data (lines 87-129), map_type "normal_tier".  A    *)
(* file is held by the parts of its name that the two patterns look at:    *)
(* <dir>/<base>_<xs>_<ys>[_tier_<tier>].<ext>, xs and ys being the digits   *)
(* as written.                                                             *)

\* Number of files under input_dir.
MaxFiles == 3

File(dir, base, xs, ys, tier, ext) ==
    [dir |-> dir, base |-> base, xs |-> xs, ys |-> ys, tier |-> tier, ext |-> ext]

\* Two spellings of tile (1, 1) of map1_lv1, the same name once more in a
\* sub-directory, further tiles, tier tiles and a file that is no tile.
FileUniverse ==
    { File("in", "map1_lv1", <<1>>, <<1>>, "", "png"),
      File("in", "map1_lv1", <<0, 1>>, <<1>>, "", "png"),
      File("in/sub", "map1_lv1", <<1>>, <<1>>, "", "png"),
      File("in", "map1_lv1", <<2>>, <<1>>, "", "png"),
      File("in", "map1_lv1", <<1>>, <<1>>, "a", "png"),
      File("in/sub", "map1_lv1", <<1>>, <<1>>, "a", "png"),
      File("in", "map2_lv1", <<1>>, <<1>>, "", "png"),
      File("in", "notes", <<1>>, <<1>>, "", "txt") }

\* os.walk(input_dir): the files of input_dir in any order, then those of
\* the sub-directory in any order.
Walks ==
    { s \in UNION { [1..n -> FileUniverse] : n \in 0..MaxFiles } :
        /\ \A i, j \in DOMAIN s : i # j => s[i] # s[j]
        /\ \A i, j \in DOMAIN s : (s[i].dir = "in/sub" /\ s[j].dir = "in") => j < i }

\* int(m.group(2)), int(m.group(3))
RECURSIVE ParseInt(_)
ParseInt(ds) == IF ds = <<>> THEN 0 ELSE 10 * ParseInt(SubSeq(ds, 1, Len(ds) - 1)) + ds[Len(ds)]

\* Lines 91-92 and 108-111: the kind of the first pattern that matches, or
\* "none".
PatternOf(f) ==
    IF f.ext = "png" /\ f.tier = "" /\ f.base \in {"map1_lv1", "map2_lv1"} THEN "normal"
    ELSE IF f.ext = "png" /\ f.tier # "" THEN "tier"
    ELSE "none"

\* Lines 112-116: the group name.
GroupName(f) == IF PatternOf(f) = "normal" THEN <<f.base>> ELSE <<f.base, "_tier_", f.tier>>

\* Line 118: key = (x, y)
TileKey(f) == <<ParseInt(f.xs), ParseInt(f.ys)>>

\* No key is ever taken as present.
IsDuplicateNever(g, name, k) == FALSE

\* Line 119: key in groups[name]
IsDuplicate(g, name, k) == name \in DOMAIN g /\ k \in DOMAIN g[name]

\* Line 124: groups[name][key] = file_path
StoreTile(g, name, k, path) ==
    [n \in DOMAIN g \cup {name} |->
        IF n = name
        THEN [q \in (IF name \in DOMAIN g THEN DOMAIN g[name] ELSE {}) \cup {k} |->
                IF q = k THEN path ELSE g[name][q]]
        ELSE g[n]]

nonPrepVars == <<layoutVars, matchVars, splitVars, islandVars, pasteVars, alignVars>>

PrepInit ==
    /\ pd_walk \in Walks
    /\ pd_next = 1
    /\ groups = EmptyFn
    /\ pd_warnings = <<>>
    /\ ppc = "walk"
    /\ LayoutIdle
    /\ MatchIdle
    /\ SplitIdle
    /\ IslandIdle
    /\ PasteIdle
    /\ AlignIdle

\* Lines 108-111 for a file that no pattern matches.
P_NoMatch ==
    /\ ppc = "walk"
    /\ pd_next <= Len(pd_walk)
    /\ PatternOf(pd_walk[pd_next]) = "none"
    /\ pd_next' = pd_next + 1
    /\ UNCHANGED <<pd_walk, groups, pd_warnings, ppc, nonPrepVars>>

\* Lines 119-122: the key is taken, the file is skipped with a warning.
P_Duplicate ==
    /\ ppc = "walk"
    /\ pd_next <= Len(pd_walk)
    /\ LET f == pd_walk[pd_next]
       IN  /\ PatternOf(f) # "none"
           /\ IsDuplicate(groups, GroupName(f), TileKey(f))
           /\ pd_warnings' = Append(pd_warnings, <<TileKey(f), GroupName(f)>>)
    /\ pd_next' = pd_next + 1
    /\ UNCHANGED <<pd_walk, groups, ppc, nonPrepVars>>

\* Lines 123-124: the file becomes the tile of its key.
P_AddTile ==
    /\ ppc = "walk"
    /\ pd_next <= Len(pd_walk)
    /\ LET f == pd_walk[pd_next]
       IN  /\ PatternOf(f) # "none"
           /\ ~IsDuplicate(groups, GroupName(f), TileKey(f))
           /\ groups' = StoreTile(groups, GroupName(f), TileKey(f), f)
    /\ pd_next' = pd_next + 1
    /\ UNCHANGED <<pd_walk, pd_warnings, ppc, nonPrepVars>>

\* Lines 127-129: the walk is over, self.groups = groups.
P_Done ==
    /\ ppc = "walk"
    /\ pd_next > Len(pd_walk)
    /\ ppc' = "done"
    /\ UNCHANGED <<pd_walk, pd_next, groups, pd_warnings, nonPrepVars>>

PrepNext ==
    \/ P_NoMatch
    \/ P_Duplicate
    \/ P_AddTile
    \/ P_Done

SpecPrepare == PrepInit /\ [][PrepNext]_vars

----------------------------------------------------------------------------
(* utils.Drawer.paste (lines 252-317) called on its own, without           *)
(* rescaling, and called again with the same arguments.                    *)

\* Number of pastes made before they are repeated.
MaxPastes == 2

\* Source pixels: opaque, partly transparent, fully transparent.
OPAQUE == <<200, 200, 40, 255>>
PARTLY == <<40, 200, 200, 170>>
CLEAR == <<200, 40, 200, 0>>

Raster(w, h, f) == [w |-> w, h |-> h, px |-> [p \in Pixels(w, h) |-> f[p]]]

\* Sources: all opaque; opaque and clear; partly transparent.
PasteSources ==
    { Raster(2, 2, [p \in Pixels(2, 2) |-> OPAQUE]),
      Raster(2, 2, [p \in Pixels(2, 2) |-> IF p[1] = p[2] THEN OPAQUE ELSE CLEAR]),
      Raster(2, 1, [p \in Pixels(2, 1) |-> IF p[1] = 0 THEN PARTLY ELSE OPAQUE]) }

\* Canvases: np.zeros with alpha 0 (line 365 of the merger), zeros with
\* alpha 255 (lines 520-521), and the three-channel canvas of Drawer.new.
PasteCanvases ==
    { Raster(3, 2, [p \in Pixels(3, 2) |-> <<0, 0, 0, 0>>]),
      Raster(3, 2, [p \in Pixels(3, 2) |-> <<0, 0, 0, 255>>]),
      Raster(3, 2, [p \in Pixels(3, 2) |-> <<0, 0, 0>>]) }

\* Placement positions: inside, across the left, top, right and bottom
\* borders, and off the canvas on either side.
PastePts == { <<0, 0>>, <<-1, 0>>, <<2, 1>>, <<1, -1>>, <<3, 0>>, <<-2, -1>> }

\* Arguments of one call: a three-channel canvas takes a four-channel source
\* with alpha blending only.
PasteArgs(cv) ==
    { [img |-> s, pos |-> q, with_alpha |-> f] :
        s \in PasteSources, q \in PastePts,
        f \in (IF Len(cv.px[<<0, 0>>]) = 4 THEN BOOLEAN ELSE {TRUE}) }

nonPasteVars == <<layoutVars, matchVars, splitVars, islandVars, prepVars, alignVars>>

PasteInit ==
    /\ cv_img \in PasteCanvases
    /\ pst_snaps = <<cv_img>>
    /\ pst_log = <<>>
    /\ pst_done = 0
    /\ pst_err = FALSE
    /\ LayoutIdle
    /\ MatchIdle
    /\ SplitIdle
    /\ IslandIdle
    /\ PrepIdle
    /\ AlignIdle

\* drawer.paste(img, pos, with_alpha=...) with new arguments.
D_Paste(args) ==
    /\ pst_done = 0
    /\ Len(pst_log) < MaxPastes
    /\ LET r == Paste(cv_img, args.img, args.pos, args.with_alpha)
       IN  /\ cv_img' = r.img
           /\ pst_err' = (pst_err \/ r.err)
           /\ pst_snaps' = Append(pst_snaps, r.img)
    /\ pst_log' = Append(pst_log, args)
    /\ UNCHANGED <<pst_done, nonPasteVars>>

\* The pastes made so far are made again, one call at a time, in order.
D_Repeat ==
    /\ pst_done < Len(pst_log)
    /\ LET args == pst_log[pst_done + 1]
           r == Paste(cv_img, args.img, args.pos, args.with_alpha)
       IN  /\ cv_img' = r.img
           /\ pst_err' = (pst_err \/ r.err)
           /\ pst_snaps' = Append(pst_snaps, r.img)
    /\ pst_done' = pst_done + 1
    /\ UNCHANGED <<pst_log, nonPasteVars>>

PasteNext ==
    \/ \E args \in PasteArgs(cv_img) : D_Paste(args)
    \/ D_Repeat

SpecPaste == PasteInit /\ [][PasteNext]_vars

----------------------------------------------------------------------------
(* MergeMapPage._process_single_group, the tile loop (lines 343-501): one   *)
(* action per iteration, by the branch it takes.  The display of lines     *)
(* 496-501 reads the state only.                                           *)

\* Number of tiles of the group.
MaxTiles == 2

\* default_config.force_size (line 54), at the scale of the rasters here.
force_size == <<3, 3>>

\* default_config.flip_x, flip_y (lines 52-53)
flip_x == FALSE
flip_y == TRUE

\* threshold of _has_opaque_pixels_on_edge
EDGE_THRESHOLD == 4

\* A str field that holds None.
Unset == "None"

\* Line 377-378: cv2.cvtColor(img, COLOR_BGR2BGRA) gives every pixel alpha 255.
ToBGRA(img) ==
    [img EXCEPT !.px = [p \in Pixels(img.w, img.h) |->
        IF Len(img.px[p]) = 3 THEN Append(img.px[p], 255) ELSE img.px[p]]]

\* Lines 139-151: np.any(img[..., 3] >= threshold) along one edge.
HasOpaquePixelsOnEdge(img, edge) ==
    CASE edge = "left" -> \E y \in 0..(img.h - 1) : img.px[<<0, y>>][4] >= EDGE_THRESHOLD
      [] edge = "right" -> \E y \in 0..(img.h - 1) : img.px[<<img.w - 1, y>>][4] >= EDGE_THRESHOLD
      [] edge = "top" -> \E x \in 0..(img.w - 1) : img.px[<<x, 0>>][4] >= EDGE_THRESHOLD
      [] edge = "bottom" -> \E x \in 0..(img.w - 1) : img.px[<<x, img.h - 1>>][4] >= EDGE_THRESHOLD
      [] OTHER -> FALSE

\* The four corners, whatever the size of the tile.
TrueFlagsCorners(img) ==
    LET flag_l == HasOpaquePixelsOnEdge(img, "left")
        flag_r == HasOpaquePixelsOnEdge(img, "right")
        flag_t == HasOpaquePixelsOnEdge(img, "top")
        flag_b == HasOpaquePixelsOnEdge(img, "bottom")
    IN  SelectSeq(<<"lt", "rt", "lb", "rb">>,
            LAMBDA c : \/ c = "lt" /\ flag_l /\ flag_t
                       \/ c = "rt" /\ flag_r /\ flag_t
                       \/ c = "lb" /\ flag_l /\ flag_b
                       \/ c = "rb" /\ flag_r /\ flag_b)

\* Lines 411-446: the list true_flags or true_corners of the branch taken.
TrueFlags(img) ==
    LET flag_l == HasOpaquePixelsOnEdge(img, "left")
        flag_r == HasOpaquePixelsOnEdge(img, "right")
        flag_t == HasOpaquePixelsOnEdge(img, "top")
        flag_b == HasOpaquePixelsOnEdge(img, "bottom")
    IN  IF img.w = force_size[1]
        THEN SelectSeq(<<"t", "b">>, LAMBDA f : (f = "t" /\ flag_t) \/ (f = "b" /\ flag_b))
        ELSE IF img.h = force_size[2]
        THEN SelectSeq(<<"l", "r">>, LAMBDA f : (f = "l" /\ flag_l) \/ (f = "r" /\ flag_r))
        ELSE SelectSeq(<<"lt", "rt", "lb", "rb">>,
                LAMBDA c : \/ c = "lt" /\ flag_l /\ flag_t
                           \/ c = "rt" /\ flag_r /\ flag_t
                           \/ c = "lb" /\ flag_l /\ flag_b
                           \/ c = "rb" /\ flag_r /\ flag_b)

\* Lines 409-449: align_mode, None unless exactly one candidate is true.
AlignMode(img) == IF Len(TrueFlags(img)) = 1 THEN TrueFlags(img)[1] ELSE Unset

\* A normalisation that sends every single edge to the top-left corner.
DirectionAlwaysTop(align_mode) ==
    CASE align_mode \in {"l", "r", "t", "b"} -> "lt"
      [] OTHER -> align_mode

\* Lines 452-461
Direction(align_mode) ==
    CASE align_mode = "l" -> "lt"
      [] align_mode = "r" -> "rt"
      [] align_mode = "t" -> "lt"
      [] align_mode = "b" -> "lb"
      [] OTHER -> align_mode

\* Lines 392-401
TilePos(xy, max_x, max_y) ==
    << IF flip_x THEN (max_x - xy[1]) * force_size[1] ELSE (xy[1] - 1) * force_size[1],
       IF flip_y THEN (max_y - xy[2]) * force_size[2] ELSE (xy[2] - 1) * force_size[2] >>

\* Lines 465-481: ax, ay
Anchor(align_mode, pos, img) ==
    << IF align_mode \in {"r", "rt", "rb"} THEN pos[1] + force_size[1] - img.w ELSE pos[1],
       IF align_mode \in {"b", "lb", "rb"} THEN pos[2] + force_size[2] - img.h ELSE pos[2] >>

\* Lines 623-631: ax, ay of the manual phase; no branch binds them for a mode
\* outside the four corners.
ManualAnchor(mode, pos, tile) ==
    CASE mode = "lt" -> pos
      [] mode = "rt" -> <<pos[1] + force_size[1] - tile.raw_w, pos[2]>>
      [] mode = "lb" -> <<pos[1], pos[2] + force_size[2] - tile.raw_h>>
      [] mode = "rb" -> <<pos[1] + force_size[1] - tile.raw_w,
                          pos[2] + force_size[2] - tile.raw_h>>
      [] OTHER -> None

\* Lines 380-389
TileInfo(xy, img, mode, direction) ==
    [file_x |-> xy[1], file_y |-> xy[2], raw_img |-> img,
     raw_w |-> img.w, raw_h |-> img.h,
     align_mode |-> mode, align_direction |-> direction]

\* A tile image whose pixels in marked have alpha hi and the others alpha lo.
TileImg(w, h, marked, hi, lo) ==
    Raster(w, h, [p \in Pixels(w, h) |-> <<200, 200, 40, IF p \in marked THEN hi ELSE lo>>])

\* What cv2.imread can return for the files of a group: standard tiles,
\* tiles short in both directions with alpha at and just under the threshold,
\* tiles short in height or in width, and a tile without alpha channel.
TileLib ==
    { TileImg(3, 3, Pixels(3, 3), 255, 0),
      TileImg(3, 3, {<<1, 1>>}, 255, 0) }
    \cup { TileImg(2, 2, m, 4, 3) : m \in SUBSET Pixels(2, 2) }
    \cup { TileImg(3, 2, m, 255, 0) : m \in SUBSET {<<1, 0>>, <<0, 1>>} }
    \cup { TileImg(2, 3, m, 255, 3) : m \in SUBSET {<<0, 1>>, <<1, 2>>} }
    \cup { Raster(2, 2, [p \in Pixels(2, 2) |-> <<40, 200, 200>>]) }

\* Orders in which the keys of tiles_dict come.
KeyOrders ==
    { <<<<1, 1>>, <<2, 1>>, <<2, 2>>>>,
      <<<<1, 2>>, <<1, 1>>, <<2, 1>>>> }

nonAlignVars == <<layoutVars, matchVars, splitVars, islandVars, prepVars, pasteVars>>

\* max over the keys of file_list (lines 359-360)
max_x == SetMax({ file_list[i][1] : i \in 1..Len(file_list) })
max_y == SetMax({ file_list[i][2] : i \in 1..Len(file_list) })

\* Lines 343-369
AlignInit ==
    /\ \E o \in KeyOrders, n \in 1..MaxTiles : file_list = SubSeq(o, 1, n)
    /\ step = 0
    /\ canvas = Raster(max_x * force_size[1], max_y * force_size[2],
                       [p \in Pixels(max_x * force_size[1], max_y * force_size[2]) |-> <<0, 0, 0, 0>>])
    /\ all_tiles = <<>>
    /\ manual_tiles = <<>>
    /\ apc = "loop"
    /\ pasted = <<>>
    /\ n_clicks = 0
    /\ hits = <<>>
    /\ akey = 0
    /\ LayoutIdle
    /\ MatchIdle
    /\ SplitIdle
    /\ IslandIdle
    /\ PrepIdle
    /\ PasteIdle

\* Lines 374-376: the file cannot be read.
A_Unreadable ==
    /\ apc = "loop"
    /\ step < Len(file_list)
    /\ step' = step + 1
    /\ UNCHANGED <<file_list, canvas, all_tiles, manual_tiles, apc, pasted, n_clicks,
                   hits, akey, nonAlignVars>>

\* Lines 374-406: a tile of the standard size is blended at its grid position.
A_Standard(raw) ==
    LET img == ToBGRA(raw)
        xy == file_list[step + 1]
    IN  /\ apc = "loop"
        /\ step < Len(file_list)
        /\ <<img.w, img.h>> = force_size
        /\ all_tiles' = Append(all_tiles, TileInfo(xy, img, Unset, Unset))
        /\ canvas' = Paste(canvas, img, TilePos(xy, max_x, max_y), TRUE).img
        /\ pasted' = Append(pasted, [xy |-> xy, img |-> img,
                                     pos |-> TilePos(xy, max_x, max_y)])
        /\ step' = step + 1
        /\ UNCHANGED <<file_list, manual_tiles, apc, n_clicks, hits, akey, nonAlignVars>>

\* Lines 374-401, 407-487: exactly one candidate, the tile is blended at
\* the anchor of its direction.
A_Auto(raw) ==
    LET img == ToBGRA(raw)
        xy == file_list[step + 1]
        align_mode == AlignMode(img)
    IN  /\ apc = "loop"
        /\ step < Len(file_list)
        /\ <<img.w, img.h>> # force_size
        /\ align_mode # Unset
        /\ all_tiles' = Append(all_tiles, TileInfo(xy, img, "auto", Direction(align_mode)))
        /\ canvas' = Paste(canvas, img, Anchor(align_mode, TilePos(xy, max_x, max_y), img), TRUE).img
        /\ pasted' = Append(pasted, [xy |-> xy, img |-> img,
                                     pos |-> Anchor(align_mode, TilePos(xy, max_x, max_y), img)])
        /\ step' = step + 1
        /\ UNCHANGED <<file_list, manual_tiles, apc, n_clicks, hits, akey, nonAlignVars>>

\* Lines 374-401, 407-449, 488-494: the tile waits for manual alignment.
A_Manual(raw) ==
    LET img == ToBGRA(raw)
        xy == file_list[step + 1]
        tile == TileInfo(xy, img, "manual", "lt")
    IN  /\ apc = "loop"
        /\ step < Len(file_list)
        /\ <<img.w, img.h>> # force_size
        /\ AlignMode(img) = Unset
        /\ all_tiles' = Append(all_tiles, tile)
        /\ manual_tiles' = Append(manual_tiles, tile)
        /\ hits' = Append(hits, 0)
        /\ step' = step + 1
        /\ UNCHANGED <<file_list, canvas, apc, pasted, n_clicks, akey, nonAlignVars>>

\* Lines 503-513: the loop is over; the manual phase is entered only when
\* a tile waits for it.
A_LoopEnd ==
    /\ apc = "loop"
    /\ step = Len(file_list)
    /\ apc' = IF manual_tiles = <<>> THEN "save" ELSE "adjust"
    /\ UNCHANGED <<file_list, step, canvas, all_tiles, manual_tiles, pasted, n_clicks,
                   hits, akey, nonAlignVars>>

AlignNext ==
    \/ A_Unreadable
    \/ \E raw \in TileLib : A_Standard(raw)
    \/ \E raw \in TileLib : A_Auto(raw)
    \/ \E raw \in TileLib : A_Manual(raw)
    \/ A_LoopEnd

SpecAlign == AlignInit /\ [][AlignNext]_vars

----------------------------------------------------------------------------
(* MergeMapPage._manual_adjustment_phase (lines 529-640): the mouse events *)
(* handled by handle_click while the window waits, the end of the wait     *)
(* loop and the pastes of the manual tiles.                                *)

\* self.window_w, self.window_h (line 64), at the scale of the rasters here;
\* the view is window_h - 100 high.
window_w == 12
window_h == 112

\* Number of mouse events delivered before the wait loop ends.
MaxClicks == 4

\* Window points the mouse can be at.
ClickPts == { <<6, 6>>, <<2, 8>>, <<9, 8>>, <<4, 2>> }

\* Events the mouse callback is called with.
MouseEvents == { "EVENT_LBUTTONDOWN", "EVENT_RBUTTONDOWN" }

\* What cv2.imread returns in the groups that go through the manual phase:
\* a standard tile, a tile aligned by its bottom edge, a tile with no
\* candidate and a tile with all four corners as candidates.
AdjustLib ==
    { TileImg(3, 3, Pixels(3, 3), 255, 0),
      TileImg(3, 2, {<<0, 1>>}, 255, 0),
      TileImg(3, 2, {}, 255, 0),
      TileImg(2, 2, Pixels(2, 2), 4, 3) }

\* Lines 550-552: scale = min(window_w / cw, (window_h - 100) / ch), kept
\* as the fraction <<numerator, denominator>>.  For the windows and canvases
\* here the quotient is a whole number, so the float holds it exactly.
Scale(cw, ch) ==
    IF window_w * ch <= (window_h - 100) * cw
    THEN <<window_w, cw>>
    ELSE <<window_h - 100, ch>>

\* int(a * scale) for a >= 0
IntTimes(a, scale) == (a * scale[1]) \div scale[2]

\* Lines 70-85: _get_tile_pos; max_y is read from self.max_y.
GetTilePos(tx, ty, scale, x_offset, y_offset, mx) ==
    << x_offset + IntTimes(IF flip_x THEN (mx - tx) * force_size[1]
                                     ELSE (tx - 1) * force_size[1], scale),
       y_offset + IntTimes(IF flip_y THEN (max_y - ty) * force_size[2]
                                     ELSE (ty - 1) * force_size[2], scale) >>

\* Lines 549-570: the test of handle_click for one tile and the click (x, y).
InCell(tile, pt, cv) ==
    LET scale == Scale(cv.w, cv.h)
        new_w == IntTimes(cv.w, scale)
        new_h == IntTimes(cv.h, scale)
        x_offset == (window_w - new_w) \div 2
        y_offset == ((window_h - 100) - new_h) \div 2
        tile_pos == GetTilePos(tile.file_x, tile.file_y, scale, x_offset, y_offset, max_x)
        tile_w == IntTimes(force_size[1], scale)
        tile_h == IntTimes(force_size[2], scale)
    IN  /\ tile_pos[1] <= pt[1] /\ pt[1] <= tile_pos[1] + tile_w
        /\ tile_pos[2] <= pt[2] /\ pt[2] <= tile_pos[2] + tile_h

\* Line 573
modes == <<"lt", "rt", "rb", "lb">>

\* A cycle in the order of the rows of the anchor table.
NextModeRowOrder(current_mode) ==
    LET row == <<"lt", "rt", "lb", "rb">>
        idx == (CHOOSE i \in 1..4 : row[i] = current_mode) - 1
    IN  row[((idx + 1) % 4) + 1]

\* Lines 572-575: idx = modes.index(current_mode); modes[(idx + 1) % 4]
NextMode(current_mode) ==
    LET idx == (CHOOSE i \in 1..4 : modes[i] = current_mode) - 1
    IN  modes[((idx + 1) % 4) + 1]

\* Lines 558-580: the index of the tile the loop stops at, 0 when it runs
\* to its end.
FirstHit(tiles, pt, cv) ==
    LET hit == { i \in 1..Len(tiles) : InCell(tiles[i], pt, cv) }
    IN  IF hit = {} THEN 0 ELSE SetMin(hit)

\* Lines 545-580: handle_click for one mouse event.
G_Mouse(ev, pt) ==
    /\ apc = "adjust"
    /\ n_clicks < MaxClicks
    /\ LET i == IF ev # "EVENT_LBUTTONDOWN" THEN 0 ELSE FirstHit(manual_tiles, pt, canvas)
       IN  IF i = 0
           THEN UNCHANGED <<manual_tiles, hits>>
           ELSE /\ manual_tiles' = [manual_tiles EXCEPT ![i].align_direction = NextMode(@)]
                /\ hits' = [hits EXCEPT ![i] = @ + 1]
    /\ n_clicks' = n_clicks + 1
    /\ UNCHANGED <<file_list, step, canvas, all_tiles, apc, pasted, akey, nonAlignVars>>

\* Lines 611-633: the pastes of tiles i.. onto cv, in list order.
RECURSIVE ApplyManual(_, _, _)
ApplyManual(cv, tiles, i) ==
    IF i > Len(tiles) THEN cv
    ELSE LET tile == tiles[i]
             pos == TilePos(<<tile.file_x, tile.file_y>>, max_x, max_y)
         IN  ApplyManual(Paste(cv, tile.raw_img,
                               ManualAnchor(tile.align_direction, pos, tile), TRUE).img,
                         tiles, i + 1)

\* An end of the wait loop that throws the manual tiles away on ESC.
G_EndEscDiscards(k) ==
    /\ apc = "adjust"
    /\ akey' = k
    /\ canvas' = IF k = ESC THEN canvas ELSE ApplyManual(canvas, manual_tiles, 1)
    /\ pasted' = IF k = ESC THEN pasted
                 ELSE pasted \o [i \in 1..Len(manual_tiles) |->
                        LET tile == manual_tiles[i]
                        IN  [xy |-> <<tile.file_x, tile.file_y>>, img |-> tile.raw_img,
                             pos |-> ManualAnchor(tile.align_direction,
                                        TilePos(<<tile.file_x, tile.file_y>>, max_x, max_y),
                                        tile)]]
    /\ apc' = "save"
    /\ UNCHANGED <<file_list, step, all_tiles, manual_tiles, n_clicks, hits, nonAlignVars>>

\* Lines 597-633: the wait loop ends on ENTER, on ESC or with the window no
\* longer visible (k = NO_KEY), and every manual tile is pasted.
G_End(k) ==
    /\ apc = "adjust"
    /\ akey' = k
    /\ canvas' = ApplyManual(canvas, manual_tiles, 1)
    /\ pasted' = pasted \o [i \in 1..Len(manual_tiles) |->
                    LET tile == manual_tiles[i]
                    IN  [xy |-> <<tile.file_x, tile.file_y>>, img |-> tile.raw_img,
                         pos |-> ManualAnchor(tile.align_direction,
                                    TilePos(<<tile.file_x, tile.file_y>>, max_x, max_y),
                                    tile)]]
    /\ apc' = "save"
    /\ UNCHANGED <<file_list, step, all_tiles, manual_tiles, n_clicks, hits, nonAlignVars>>

AdjustNext ==
    \/ A_Unreadable
    \/ \E raw \in AdjustLib : A_Standard(raw)
    \/ \E raw \in AdjustLib : A_Auto(raw)
    \/ \E raw \in AdjustLib : A_Manual(raw)
    \/ A_LoopEnd
    \/ \E ev \in MouseEvents, pt \in ClickPts : G_Mouse(ev, pt)
    \/ \E k \in {ENTER, ESC, NO_KEY} : G_End(k)

SpecAdjust == AlignInit /\ [][AdjustNext]_vars

----------------------------------------------------------------------------
(* Claims about _manual_split                                              *)

Canvas == Pixels(canvas_w, canvas_h)

MapIdx == DOMAIN land_masks

\* The maps whose land mask covers p.
Covering(p) == { i \in MapIdx : p \in land_masks[i] }

\* The exclusive region of map i: its land that no other map covers.
Exclusive(i) == { p \in land_masks[i] : Covering(p) = {i} }

\* The partition path has run to its end: overlap existed and the barrier
\* loop ended by ENTER or by the window being closed.
Partitioned == spc = "exported" /\ key \in {ENTER, NO_KEY}

\* The pixels of the canvas outside c that have a 4-neighbour in c.
Ring4(c) ==
    { q \in Canvas \ c :
        \E p \in c : Abs(p[1] - q[1]) + Abs(p[2] - q[2]) = 1 }

\* The component loop is past component k.
Processed(k) ==
    /\ spc \in {"assign", "final", "exported"}
    /\ k \in DOMAIN cc
    /\ k < cc_id

\* C1: in the partition path the final ownership masks are pairwise
\* disjoint, their union is the union of all land masks (any_land), and no
\* pixel is left unresolved.
C1_Partition ==
    Partitioned =>
        /\ \A i, j \in MapIdx : i # j => fin[i] \cap fin[j] = {}
        /\ UNION { fin[i] : i \in MapIdx } = UNION { land_masks[i] : i \in MapIdx }
        /\ UNION { fin[i] : i \in MapIdx } = any_land
        /\ \A p \in Canvas : owner[p] # UNRESOLVED

\* A partition with a barrier that cut the overlap into several components
\* and left every map something.
C1_Witness ==
    /\ Partitioned
    /\ wall \cap overlap # {}
    /\ Len(cc) >= 2
    /\ \A i \in MapIdx : fin[i] # {}

\* The alphabetically first of the maps covering p.
AlphaFirst(p) ==
    CHOOSE i \in Covering(p) :
        \A j \in Covering(p) : j = i \/ StrLt(names_list[i + 1], names_list[j + 1])

\* C2: every overlap pixel that is still unresolved after the component
\* pass is given to the map with the alphabetically smallest name among the
\* maps whose land mask covers it, whatever the index order of the maps.
C2_AlphabeticalFallback ==
    [][ (spc = "assign" /\ spc' = "final") =>
            \A p \in overlap :
                owner[p] = UNRESOLVED => owner'[p] = AlphaFirst(p) ]_vars

\* After the pass: a wall pixel in the overlap went to the map that is first
\* by name although it is not first by index.
C2_Witness ==
    /\ spc = "final"
    /\ \E p \in wall \cap overlap :
          /\ owner[p] = AlphaFirst(p)
          /\ \E j \in Covering(p) : j < owner[p]

\* The canvas pixels reached from content pixel p by two dilations with the
\* 5x5 ellipse: up to 4 columns away within 2 rows, up to 2 columns away at
\* 3 rows, the same column at 4 rows.
Footprint(p) ==
    { q \in Canvas :
        LET ax == Abs(q[1] - p[1])
            ay == Abs(q[2] - p[2])
        IN  \/ ay <= 2 /\ ax <= 4
            \/ ay = 3 /\ ax <= 2
            \/ ay = 4 /\ ax = 0 }

\* The content mask of map i at its layout position.
PlacedContent(i) ==
    PlacedMask(maps[names_list[i + 1]], positions[names_list[i + 1]], canvas_w, canvas_h)

\* No overlap existed, or ESC ended the barrier loop: the masks were
\* exported as they are.
ExportedAsIs == spc = "exported" /\ (overlap = {} \/ key = ESC)

\* C3 (as stated): without overlap or after ESC, the mask handed to export
\* for each map equals the map's own content mask placed on the canvas.
C3_AsIsContentMask ==
    ExportedAsIs => \A i \in MapIdx : fin[i] = PlacedContent(i)

\* C3 (amended): without overlap or after ESC, the mask handed to export
\* for each map is the map's placed content mask dilated twice by the 5x5
\* ellipse inside the canvas: it contains the content mask, and every pixel
\* of it lies in the footprint of a content pixel.
C3_AsIsDilatedMask ==
    ExportedAsIs =>
        \A i \in MapIdx :
            /\ PlacedContent(i) \subseteq fin[i]
            /\ fin[i] = UNION { Footprint(p) : p \in PlacedContent(i) }

\* ESC after a barrier was drawn over an existing overlap; the exported mask
\* of a map holds pixels outside its content mask.
C3_Witness ==
    /\ spc = "exported"
    /\ key = ESC
    /\ barrier # {}
    /\ \E i \in MapIdx : fin[i] \ PlacedContent(i) # {}

\* Number of exclusive pixels of map i in the ring of c.
RingCount(c, i) == Cardinality(Ring4(c) \cap Exclusive(i))

\* Every pixel of c has owner o.
OwnedWhole(c, o) == \A p \in c : owner[p] = o

\* C4: a fillable component whose 4-neighbour ring holds an exclusive pixel
\* is assigned as a whole to a map whose count of exclusive pixels in that
\* ring is maximal; the components are those of overlap minus wall.
C4_RingMajority ==
    /\ spc \in {"assign", "final", "exported"} /\ key # ESC /\ overlap # {} =>
          UNION { cc[k] : k \in DOMAIN cc } = overlap \ wall
    /\ \A k \in DOMAIN cc :
          (Processed(k) /\ \E i \in MapIdx : RingCount(cc[k], i) > 0) =>
              \E o \in MapIdx :
                  /\ OwnedWhole(cc[k], o)
                  /\ \A i \in MapIdx : RingCount(cc[k], o) >= RingCount(cc[k], i)

\* A processed component that touches the exclusive regions of two maps, the
\* one with the larger count not being the first touched.
C4_Witness ==
    \E k \in DOMAIN cc :
        /\ Processed(k)
        /\ \E i, o \in MapIdx :
              /\ i < o
              /\ RingCount(cc[k], i) > 0
              /\ RingCount(cc[k], o) > RingCount(cc[k], i)
              /\ OwnedWhole(cc[k], o)

\* Squared Euclidean distance between two pixels.
EuclidSq(p, q) == (p[1] - q[1]) * (p[1] - q[1]) + (p[2] - q[2]) * (p[2] - q[2])

\* Squared Euclidean distance from component c to the exclusive region of i.
EuclidSqTo(c, i) == SetMin({ EuclidSq(p, q) : p \in c, q \in Exclusive(i) })

\* Component k is isolated: no exclusive pixel in its ring, and some map has
\* an exclusive region.
Isolated(k) ==
    /\ Processed(k)
    /\ \A i \in MapIdx : RingCount(cc[k], i) = 0
    /\ \E i \in MapIdx : Exclusive(i) # {}

\* C5: an isolated fillable component is assigned to the map whose exclusive
\* region has the smallest Euclidean distance to the component, among the
\* maps with a non-empty exclusive region.
C5_NearestEuclidean ==
    \A k \in DOMAIN cc :
        Isolated(k) =>
            \E o \in MapIdx :
                /\ Exclusive(o) # {}
                /\ OwnedWhole(cc[k], o)
                /\ \A i \in MapIdx :
                      Exclusive(i) # {} => EuclidSqTo(cc[k], o) <= EuclidSqTo(cc[k], i)

\* C6: whatever the barrier, a pixel covered by exactly one land mask is
\* owned by that map from the initialisation to the final result, and a
\* pixel covered by no land mask is owned by none.
C6_ExclusiveFrame ==
    /\ (spc \in {"draw", "assign", "final"} \/ Partitioned) =>
          \A p \in Canvas :
              /\ Covering(p) = {} => owner[p] = NONE_OWNER
              /\ \A i \in MapIdx : Covering(p) = {i} => owner[p] = i
    /\ Partitioned =>
          \A p \in Canvas :
              /\ Covering(p) = {} => \A i \in MapIdx : p \notin fin[i]
              /\ \A i \in MapIdx :
                    Covering(p) = {i} => p \in fin[i] /\ \A j \in MapIdx \ {i} : p \notin fin[j]

\* A finished partition whose wall ran over a pixel of an exclusive region
\* and over a pixel without land, next to an isolated component.
C6_Witness ==
    /\ Partitioned
    /\ \E p \in wall : Covering(p) = {}
    /\ \E p \in wall : \E i \in MapIdx : Covering(p) = {i}
    /\ \E k \in DOMAIN cc : \A i \in MapIdx : RingCount(cc[k], i) = 0

----------------------------------------------------------------------------
(* Claims about _remove_islands                                            *)

\* The centre region as the claims describe it: the pixels within 5% of the
\* width of the centre column and within 5% of the height of the centre row,
\* one pixel at least.
ClaimCentre(img) ==
    { p \in Pixels(img.w, img.h) :
        /\ Abs(p[1] - img.w \div 2) <= Max2(1, (5 * img.w) \div 100)
        /\ Abs(p[2] - img.h \div 2) <= Max2(1, (5 * img.h) \div 100) }

Adjacent8(p, q) == p # q /\ Abs(p[1] - q[1]) <= 1 /\ Abs(p[2] - q[2]) <= 1

\* K holds, with each of its pixels, every land pixel next to it.
Closed8(K, land) == \A p \in K : \A q \in land : Adjacent8(p, q) => q \in K

\* The land of the 8-connected components that meet the centre region: the
\* least closed set of land pixels that holds the land of the centre region.
KeptLand(img) ==
    LET land == ContentMask(img)
        seeds == land \cap ClaimCentre(img)
    IN  CHOOSE K \in SUBSET land :
            /\ seeds \subseteq K
            /\ Closed8(K, land)
            /\ \A K2 \in SUBSET land :
                  (seeds \subseteq K2 /\ Closed8(K2, land)) => K \subseteq K2

\* out is src with the land outside the kept components zeroed and every
\* other pixel as it was.
Filtered(src, out) ==
    /\ out.w = src.w
    /\ out.h = src.h
    /\ \A p \in Pixels(src.w, src.h) :
          out.px[p] = IF p \in ContentMask(src) \ KeptLand(src) THEN BLACK ELSE src.px[p]

\* C16: for a map whose centre region holds land, _remove_islands returns a
\* raster in which the land of the 8-connected components that meet the
\* centre region keeps its values, all other land is zero and the non-land
\* pixels are unchanged; the rasters passed in are not modified.
C16_ContinentKept ==
    /\ \A nm \in DOMAIN isl_maps : isl_heap[isl_maps[nm]] = isl_orig[nm]
    /\ \A nm \in DOMAIN isl_result :
          ContentMask(isl_orig[nm]) \cap ClaimCentre(isl_orig[nm]) # {}
              => Filtered(isl_orig[nm], isl_heap[isl_result[nm]])

\* A returned map whose continent reaches beyond the centre region over a
\* diagonal step, that lost an island and kept a dim pixel that is not land.
C16_Witness ==
    /\ ipc = "ret"
    /\ \E nm \in DOMAIN isl_result :
          LET src == isl_orig[nm]
              out == isl_heap[isl_result[nm]]
          IN  /\ ContentMask(src) \cap ClaimCentre(src) # {}
              /\ KeptLand(src) \ ClaimCentre(src) # {}
              /\ \E p \in ContentMask(src) \ KeptLand(src) :
                    src.px[p] # BLACK /\ out.px[p] = BLACK
              /\ \E p \in Pixels(src.w, src.h) \ ContentMask(src) : out.px[p] # BLACK

\* C17: a map without land in its centre region is returned pixel for pixel
\* as it was, whatever land it holds elsewhere, with a warning as the only
\* report, and the maps after it are filtered as usual.
C17_EmptyCentreKept ==
    /\ \A nm \in DOMAIN isl_result :
          ContentMask(isl_orig[nm]) \cap ClaimCentre(isl_orig[nm]) = {} =>
              /\ isl_heap[isl_result[nm]] = isl_orig[nm]
              /\ \E k \in DOMAIN isl_log : isl_log[k] = <<nm, "warn", 0>>
              /\ \A k \in DOMAIN isl_log : isl_log[k][1] = nm => isl_log[k][2] = "warn"
    /\ ipc = "ret" =>
          /\ DOMAIN isl_result = DOMAIN isl_maps
          /\ \A nm \in DOMAIN isl_result :
                \/ isl_heap[isl_result[nm]] = isl_orig[nm]
                \/ Filtered(isl_orig[nm], isl_heap[isl_result[nm]])

\* The first map of a group had two separate pieces of land and none at
\* its centre; it was kept with a warning, and the map after it lost an
\* island.
C17_Witness ==
    /\ ipc = "ret"
    /\ Len(isl_log) = 2
    /\ isl_log[1][2] = "warn"
    /\ isl_log[2][2] = "removed"
    /\ LET src == isl_orig[isl_log[1][1]]
       IN  /\ isl_heap[isl_result[isl_log[1][1]]] = src
           /\ \E p, q \in ContentMask(src) : Abs(p[1] - q[1]) > 1
    /\ isl_heap[isl_result[isl_log[2][1]]] # isl_orig[isl_log[2][1]]

----------------------------------------------------------------------------
(* Claims about _build_layout                                              *)

\* The maps linked to nm by a matched pair, and the maps reachable from S.
Linked(nm) == { o \in DOMAIN shape : o # nm /\ match[<<nm, o>>] # None }

RECURSIVE ReachFrom(_)
ReachFrom(S) ==
    LET T == S \cup UNION { Linked(nm) : nm \in S }
    IN  IF T = S THEN S ELSE ReachFrom(T)

CompIndex(nm) == CHOOSE i \in DOMAIN components : nm \in Range(components[i])

\* C7: when _build_layout returns, every map name has a position (a map with
\* no matched overlap is a component of its own), and every map that is not
\* the root of its component sits at the final position of the map BFS
\* reached it from plus the offset of the edge used.
C7_LayoutTree ==
    lpc = "done" =>
        /\ DOMAIN positions = DOMAIN shape
        /\ \A nm \in DOMAIN shape :
              Linked(nm) = {} => \E i \in DOMAIN components : components[i] = <<nm>>
        /\ \A i \in DOMAIN components : \A k \in 2..Len(components[i]) :
              LET nm == components[i][k]
              IN  /\ nm \in DOMAIN parent
                  /\ match[<<parent[nm][1], nm>>] = <<parent[nm][2], parent[nm][3]>>
                  /\ positions[nm] = << positions[parent[nm][1]][1] + parent[nm][2],
                                        positions[parent[nm][1]][2] + parent[nm][3] >>

\* A finished layout with a map two edges away from its root, in a component
\* that normalisation has moved.
C7_Witness ==
    /\ lpc = "done"
    /\ \E nm \in DOMAIN parent :
          /\ parent[nm][1] \in DOMAIN parent
          /\ parent[nm][3] # 0
          /\ positions[components[CompIndex(nm)][1]] # <<0, 0>>

\* C8: when _build_layout returns, maps of different connected components
\* have horizontal extents at least GAP apart, components lie left to right
\* in discovery order, and each later component starts at the largest right
\* edge of the previous one plus GAP.
C8_ComponentGap ==
    lpc = "done" =>
        /\ \A a, b \in DOMAIN shape :
              b \notin ReachFrom({a}) =>
                  \/ positions[a][1] + shape[a][1] + GAP <= positions[b][1]
                  \/ positions[b][1] + shape[b][1] + GAP <= positions[a][1]
        /\ \A a, b \in DOMAIN shape :
              CompIndex(a) < CompIndex(b) =>
                  positions[a][1] + shape[a][1] + GAP <= positions[b][1]
        /\ \A i \in 2..Len(components) :
              SetMin({ positions[nm][1] : nm \in Range(components[i]) })
                = SetMax({ positions[nm][1] + shape[nm][1] : nm \in Range(components[i - 1]) }) + GAP

\* A finished layout of two components, the first one holding two maps.
C8_Witness ==
    /\ lpc = "done"
    /\ Len(components) = 2
    /\ Len(components[1]) = 2

\* C9: a second run on the same directory and the same match results ends
\* with the same layout (same key order, same positions) as the first.
C9_LayoutDeterministic ==
    (run_no = 2 /\ lpc = "done") => <<pos_keys, positions>> = first_layout

\* The second run has finished on a layout whose BFS order differs from the
\* order of the name list.
C9_Witness ==
    /\ run_no = 2
    /\ lpc = "done"
    /\ pos_keys # names
    /\ <<pos_keys, positions>> = first_layout

\* C19: when _build_layout has returned, every edge found by pairwise
\* matching between maps A and B with offset (dx, dy), the edges that close a
\* cycle included, has position(B) - position(A) = (dx, dy).
C19_AllEdgesSatisfied ==
    lpc = "done" =>
        \A a \in DOMAIN edges : \A k \in DOMAIN edges[a] :
            LET b == edges[a][k][1]
            IN  /\ positions[b][1] - positions[a][1] = edges[a][k][2]
                /\ positions[b][2] - positions[a][2] = edges[a][k][3]

----------------------------------------------------------------------------
(* Claims about _match_pair                                                *)

\* B shows, at cell offset c, the same pixels as A wherever the two frames
\* overlap (same land, same colours on land), and the jointly-land overlap
\* reaches the minimum content.
CopyAt(a, b, c) ==
    LET dx == GridOffset(c[1])
        dy == GridOffset(c[2])
        r == OverlapRect(a, b, dx, dy)
        rect == { p \in Pixels(a.w, a.h) :
                    r[1] <= p[1] /\ p[1] < r[3] /\ r[2] <= p[2] /\ p[2] < r[4] }
    IN  /\ rect # {}
        /\ \A p \in rect :
              LET q == <<p[1] - dx, p[2] - dy>>
              IN  /\ (p \in ContentMask(a)) <=> (q \in ContentMask(b))
                  /\ p \in ContentMask(a) => a.px[p] = b.px[q]
        /\ ~BelowMinContent(Cardinality(Both(a, b, dx, dy)))

\* The jointly-land overlap at cell c reaches the minimum content and is
\* pixel-identical in gray.
ExactAt(a, b, c) ==
    /\ ~BelowMinContent(Cardinality(Both(a, b, GridOffset(c[1]), GridOffset(c[2]))))
    /\ DiffSum(a, b, GridOffset(c[1]), GridOffset(c[2])) = 0

CellIndex(cells, c) == CHOOSE i \in DOMAIN cells : cells[i] = c

\* C10 as stated: whenever B is an exact copy of A's content at a cell offset
\* of the tested range with enough jointly-land overlap, _match_pair returns
\* exactly that offset with a score above the threshold.
C10_OffsetRecovery ==
    mpc = "ret" =>
        \A c \in Range(ScanCells(img_a, img_b)) :
            CopyAt(img_a, img_b, c) =>
                /\ result # None
                /\ result[1] = GridOffset(c[1])
                /\ result[2] = GridOffset(c[2])
                /\ ScoreAbove(result[3], result[4], THRESHOLD_PCT)

\* C10 amended: for an exact copy at a cell offset other than (0, 0),
\* _match_pair returns a match of score exactly 1 (difference sum 0), at the
\* first tested cell in scan order whose jointly-land overlap reaches the
\* minimum content and is pixel-identical; that is the injected offset
\* unless an earlier tested cell is such an exact overlap too.
C10_OffsetRecoveryAmended ==
    mpc = "ret" =>
        \A c \in Range(ScanCells(img_a, img_b)) :
            (CopyAt(img_a, img_b, c) /\ c # <<0, 0>>) =>
                LET cells == ScanCells(img_a, img_b)
                    exact == { i \in DOMAIN cells :
                                 cells[i] # <<0, 0>> /\ ExactAt(img_a, img_b, cells[i]) }
                    first == cells[SetMin(exact)]
                IN  /\ result # None
                    /\ result[3] = 0
                    /\ ScoreAbove(result[3], result[4], THRESHOLD_PCT)
                    /\ <<result[1], result[2]>> = <<GridOffset(first[1]), GridOffset(first[2])>>
                    /\ (SetMin(exact) = CellIndex(cells, c)) =>
                          <<result[1], result[2]>> = <<GridOffset(c[1]), GridOffset(c[2])>>

\* _match_pair has returned the injected offset of a textured pair, and that
\* offset was not the first cell tested.
C10_Witness ==
    /\ mpc = "ret"
    /\ result # None
    /\ \E c \in Range(ScanCells(img_a, img_b)) :
          /\ c # <<0, 0>>
          /\ CopyAt(img_a, img_b, c)
          /\ CellIndex(ScanCells(img_a, img_b), c) > 2
          /\ <<result[1], result[2]>> = <<GridOffset(c[1]), GridOffset(c[2])>>
          /\ \E p, q \in ContentMask(img_a) : img_a.px[p] # img_a.px[q]

\* The cells of the claimed range: nx from -(tiles_bx - 1) to tiles_ax - 1 and
\* ny from -(tiles_by - 1) to tiles_ay - 1.
RangeCells(a, b) ==
    ((0 - (Tiles(b.w) - 1))..(Tiles(a.w) - 1)) \X ((0 - (Tiles(b.h) - 1))..(Tiles(a.h) - 1))

\* The cells the loop body works on: the range without the cell (0, 0).
TestedCells(a, b) == RangeCells(a, b) \ { <<0, 0>> }

\* The content bounding box of A and the one of B moved by (dx, dy) share a
\* pixel.
BoxesMeet(a, b, dx, dy) ==
    LET ma == ContentMask(a)
        mb == ContentMask(b)
    IN  /\ ma # {}
        /\ mb # {}
        /\ \E xa, xb \in 0..(a.w + b.w) :
              /\ \E p \in ma : p[1] <= xa
              /\ \E p \in ma : p[1] >= xa
              /\ xa = xb + dx
              /\ \E q \in mb : q[1] <= xb
              /\ \E q \in mb : q[1] >= xb
        /\ \E ya, yb \in 0..(a.h + b.h) :
              /\ \E p \in ma : p[2] <= ya
              /\ \E p \in ma : p[2] >= ya
              /\ ya = yb + dy
              /\ \E q \in mb : q[2] <= yb
              /\ \E q \in mb : q[2] >= yb

\* C11: _match_pair never returns an offset at which the two content
\* bounding boxes do not intersect, and it returns None when a content mask
\* is empty or the boxes are disjoint at every tested offset.
C11_NoFalsePositive ==
    mpc = "ret" =>
        /\ result # None => BoxesMeet(img_a, img_b, result[1], result[2])
        /\ ( \/ ContentMask(img_a) = {}
             \/ ContentMask(img_b) = {}
             \/ \A c \in TestedCells(img_a, img_b) :
                   ~BoxesMeet(img_a, img_b, GridOffset(c[1]), GridOffset(c[2])) )
           => result = None

\* Both images hold land, their frames overlap at tested offsets, yet the
\* content boxes meet at none of them: no match.
C11_Witness ==
    /\ mpc = "ret"
    /\ ContentMask(img_a) # {}
    /\ ContentMask(img_b) # {}
    /\ \A c \in TestedCells(img_a, img_b) :
          ~BoxesMeet(img_a, img_b, GridOffset(c[1]), GridOffset(c[2]))
    /\ result = None

\* The candidate at cell c qualifies: boxes meet, enough jointly-land pixels
\* (at least 0.30 of one cell's pixel count), score above the threshold.
Qualifies(a, b, c) ==
    LET dx == GridOffset(c[1])
        dy == GridOffset(c[2])
        n == Cardinality(Both(a, b, dx, dy))
    IN  /\ BoxesMeet(a, b, dx, dy)
        /\ 10 * n >= 3 * PyRound(step_f2, 2) * PyRound(step_f2, 2)
        /\ DiffSum(a, b, dx, dy) * 100 < (100 - THRESHOLD_PCT) * 255 * n

\* Mean absolute difference at cell c1 is below the one at c2, i.e. the
\* score at c1 is higher.
HigherScore(a, b, c1, c2) ==
    LET s1 == DiffSum(a, b, GridOffset(c1[1]), GridOffset(c1[2]))
        n1 == Cardinality(Both(a, b, GridOffset(c1[1]), GridOffset(c1[2])))
        s2 == DiffSum(a, b, GridOffset(c2[1]), GridOffset(c2[2]))
        n2 == Cardinality(Both(a, b, GridOffset(c2[1]), GridOffset(c2[2])))
    IN  s1 * n2 < s2 * n1

\* c1 comes before c2 in scan order: x cell ascending, then y cell ascending.
ScannedBefore(c1, c2) == c1[1] < c2[1] \/ (c1[1] = c2[1] /\ c1[2] < c2[2])

\* The qualifying cell of highest score, the first in scan order among equals.
BestCell(a, b) ==
    LET Q == { c \in TestedCells(a, b) : Qualifies(a, b, c) }
    IN  CHOOSE c \in Q :
            \A o \in Q \ {c} :
                \/ HigherScore(a, b, c, o)
                \/ (~HigherScore(a, b, o, c) /\ ScannedBefore(c, o))

\* C12: _match_pair returns the qualifying candidate of highest score, the
\* first in scan order among equal highest scores, and None when no
\* candidate qualifies.
C12_BestCandidate ==
    mpc = "ret" =>
        IF \A c \in TestedCells(img_a, img_b) : ~Qualifies(img_a, img_b, c)
        THEN result = None
        ELSE LET c == BestCell(img_a, img_b)
             IN  /\ result # None
                 /\ result[1] = GridOffset(c[1])
                 /\ result[2] = GridOffset(c[2])
                 /\ result[3] = DiffSum(img_a, img_b, GridOffset(c[1]), GridOffset(c[2]))

\* A match was returned although an earlier candidate qualified with a lower
\* score and a later one qualified with the same score.
C12_Witness ==
    /\ mpc = "ret"
    /\ result # None
    /\ LET c == BestCell(img_a, img_b)
       IN  /\ result[1] = GridOffset(c[1]) /\ result[2] = GridOffset(c[2])
           /\ \E o \in TestedCells(img_a, img_b) :
                 /\ Qualifies(img_a, img_b, o)
                 /\ ScannedBefore(o, c)
                 /\ HigherScore(img_a, img_b, c, o)
           /\ \E o \in TestedCells(img_a, img_b) :
                 /\ Qualifies(img_a, img_b, o)
                 /\ ScannedBefore(c, o)
                 /\ ~HigherScore(img_a, img_b, c, o)

\* Lines 761-778: the cells for which the loop body gets as far as computing
\* the pixel offset (line 777).
ExaminedCells(a, b) ==
    IF ContentBBox(ContentMask(a)) = None \/ ContentBBox(ContentMask(b)) = None THEN {}
    ELSE { c \in Range(ScanCells(a, b)) : ~SkipCell(c[1], c[2]) }

\* C20 as stated: the examined candidates are exactly the cells of the
\* range, every one of them evaluated, each at a pixel offset that is a
\* multiple of the tile step.
C20_ExactRange ==
    (mpc = "ret" /\ ContentMask(img_a) # {} /\ ContentMask(img_b) # {}) =>
        /\ ExaminedCells(img_a, img_b) = RangeCells(img_a, img_b)
        /\ \A c \in ExaminedCells(img_a, img_b) :
              /\ 2 * GridOffset(c[1]) = c[1] * step_f2
              /\ 2 * GridOffset(c[2]) = c[2] * step_f2

\* C20: when both images hold land, the candidates examined by _match_pair
\* are exactly the cells of the range other than (0, 0), which is never
\* evaluated, and each is converted to the multiple of the tile step rounded
\* to a whole pixel; a returned offset is the offset of an examined cell.
C20_ExactRangeAmended ==
    (mpc = "ret" /\ ContentMask(img_a) # {} /\ ContentMask(img_b) # {}) =>
        /\ ExaminedCells(img_a, img_b) = RangeCells(img_a, img_b) \ { <<0, 0>> }
        /\ \A c \in ExaminedCells(img_a, img_b) :
              /\ Abs(2 * GridOffset(c[1]) - c[1] * step_f2) <= 1
              /\ Abs(2 * GridOffset(c[2]) - c[2] * step_f2) <= 1
        /\ result # None =>
              \E c \in RangeCells(img_a, img_b) \ { <<0, 0>> } :
                  result[1] = GridOffset(c[1]) /\ result[2] = GridOffset(c[2])

\* A pair whose range has cells on both sides of zero on both axes was
\* scanned and matched at an offset that is not a multiple of the tile step.
C20_Witness ==
    /\ mpc = "ret"
    /\ result # None
    /\ \E c \in ExaminedCells(img_a, img_b) : c[1] < 0 /\ c[2] < 0
    /\ \E c \in ExaminedCells(img_a, img_b) : c[1] > 0 /\ c[2] > 0
    /\ <<0, 0>> \in RangeCells(img_a, img_b) \ ExaminedCells(img_a, img_b)
    /\ 2 * result[1] % step_f2 # 0

----------------------------------------------------------------------------
(* Claims about _prepare_data                                              *)

\* Positions of the walk already scanned that hold a tile file.
ScannedTiles == { i \in 1..(pd_next - 1) : PatternOf(pd_walk[i]) # "none" }

SameKey(i, j) ==
    /\ GroupName(pd_walk[i]) = GroupName(pd_walk[j])
    /\ TileKey(pd_walk[i]) = TileKey(pd_walk[j])

\* The first scanned file with the key of the file at position i.
FirstWith(i) == CHOOSE j \in ScannedTiles : SameKey(i, j) /\ \A k \in ScannedTiles : SameKey(i, k) => j <= k

\* The scanned files that were not the first with their key, in scan order.
RECURSIVE LaterFiles(_)
LaterFiles(i) ==
    IF i = 0 THEN <<>>
    ELSE IF i \in ScannedTiles /\ FirstWith(i) # i
         THEN Append(LaterFiles(i - 1), <<TileKey(pd_walk[i]), GroupName(pd_walk[i])>>)
         ELSE LaterFiles(i - 1)

\* C18: at any point of the scan every (group name, (x, y)) key maps to the
\* first file met with that key, every later file with the same key was
\* skipped with a warning, and the scan goes on to the last file.
C18_FirstWins ==
    /\ \A i \in ScannedTiles :
          /\ GroupName(pd_walk[i]) \in DOMAIN groups
          /\ TileKey(pd_walk[i]) \in DOMAIN groups[GroupName(pd_walk[i])]
          /\ groups[GroupName(pd_walk[i])][TileKey(pd_walk[i])] = pd_walk[FirstWith(i)]
    /\ \A n \in DOMAIN groups : \A k \in DOMAIN groups[n] :
          \E i \in ScannedTiles : GroupName(pd_walk[i]) = n /\ TileKey(pd_walk[i]) = k
    /\ pd_warnings = LaterFiles(pd_next - 1)
    /\ ppc = "done" => pd_next = Len(pd_walk) + 1

\* A finished scan in which a file was skipped for a key written with other
\* digits and a file after it was still added.
C18_Witness ==
    /\ ppc = "done"
    /\ \E i, j, k \in ScannedTiles :
          /\ i < j
          /\ j < k
          /\ SameKey(i, j)
          /\ pd_walk[i].xs # pd_walk[j].xs
          /\ FirstWith(k) = k
    /\ Len(pd_warnings) = 1

----------------------------------------------------------------------------
(* Claims about Drawer.paste                                               *)

\* The arguments of the k-th paste made: those of the first round, then the
\* same ones again in the same order.
PasteArgsAt(k) == pst_log[((k - 1) % Len(pst_log)) + 1]

\* Number of pastes made so far, in both rounds.
PastesMade == Len(pst_snaps) - 1

\* Canvas pixels covered by the source rectangle placed at pos.
Intersection(cv, img, pos) ==
    { p \in Pixels(cv.w, cv.h) :
        /\ pos[1] <= p[1] /\ p[1] < pos[1] + img.w
        /\ pos[2] <= p[2] /\ p[2] < pos[2] + img.h }

\* C14: whatever the placement position, a paste raises no error and leaves
\* every canvas pixel outside the intersection of the source rectangle with
\* the canvas as it was; with an empty intersection the canvas is unchanged.
C14_ClampedToCanvas ==
    /\ pst_err = FALSE
    /\ \A k \in 1..PastesMade :
        LET before == pst_snaps[k]
            after == pst_snaps[k + 1]
            inter == Intersection(before, PasteArgsAt(k).img, PasteArgsAt(k).pos)
        IN  /\ after.w = before.w /\ after.h = before.h
            /\ \A p \in Pixels(before.w, before.h) \ inter : after.px[p] = before.px[p]
            /\ inter = {} => after = before

\* A paste across the left or top border changed the canvas, and a paste off
\* the canvas was made.
C14_Witness ==
    /\ \E k \in 1..PastesMade :
        /\ PasteArgsAt(k).pos[1] < 0 \/ PasteArgsAt(k).pos[2] < 0
        /\ pst_snaps[k + 1] # pst_snaps[k]
    /\ \E k \in 1..PastesMade :
        Intersection(pst_snaps[k], PasteArgsAt(k).img, PasteArgsAt(k).pos) = {}

\* Both rounds are complete: every paste has been made twice.
Repeated == Len(pst_log) > 0 /\ pst_done = Len(pst_log)

\* The canvas as the first round left it.
FirstResult == pst_snaps[Len(pst_log) + 1]

\* C15 as stated: making the same pastes again, in the same order, on the
\* canvas that holds their result leaves it byte-identical, whatever the
\* alpha values of the sources.
C15_Idempotent == Repeated => cv_img = FirstResult

\* The paste copies or fully covers: alpha blending is off, or every source
\* pixel that falls on the canvas is opaque.
CoveringPaste(args) ==
    \/ ~args.with_alpha
    \/ \A p \in Intersection(pst_snaps[1], args.img, args.pos) :
          args.img.px[<<p[1] - args.pos[1], p[2] - args.pos[2]>>][4] = 255

\* C15, amended: making the same pastes again, in the same order, leaves the
\* canvas byte-identical when every paste has alpha blending off or places
\* only opaque source pixels on the canvas.
C15_IdempotentCovering ==
    (Repeated /\ \A k \in 1..Len(pst_log) : CoveringPaste(pst_log[k])) => cv_img = FirstResult

\* Two covering pastes that overlap, one of them blended, have been made
\* twice, and the second round wrote pixels on the way.
C15_Witness ==
    /\ Repeated
    /\ Len(pst_log) = 2
    /\ \A k \in 1..2 : CoveringPaste(pst_log[k])
    /\ \E k \in 1..2 : pst_log[k].with_alpha
    /\ Intersection(pst_snaps[1], pst_log[1].img, pst_log[1].pos)
         \cap Intersection(pst_snaps[1], pst_log[2].img, pst_log[2].pos) # {}
    /\ pst_snaps[4] # FirstResult
    /\ cv_img = FirstResult

----------------------------------------------------------------------------
(* Claims about the tile loop of _process_single_group                     *)

\* An edge of the tile holds a pixel of alpha 4 or more.
EdgeFlag(img, edge) ==
    \E p \in Pixels(img.w, img.h) :
        /\ img.px[p][4] >= 4
        /\ \/ edge = "left" /\ p[1] = 0
           \/ edge = "right" /\ p[1] = img.w - 1
           \/ edge = "top" /\ p[2] = 0
           \/ edge = "bottom" /\ p[2] = img.h - 1

\* The candidates that are true for a tile: top and bottom when its width is
\* the standard width, left and right when only its height is the standard
\* height, the four corners otherwise.
TrueCandidates(t) ==
    IF t.raw_w = force_size[1]
    THEN { <<e>> : e \in { e \in {"top", "bottom"} : EdgeFlag(t.raw_img, e) } }
    ELSE IF t.raw_h = force_size[2]
    THEN { <<e>> : e \in { e \in {"left", "right"} : EdgeFlag(t.raw_img, e) } }
    ELSE { c \in {"left", "right"} \X {"top", "bottom"} :
             EdgeFlag(t.raw_img, c[1]) /\ EdgeFlag(t.raw_img, c[2]) }

NonStandard(t) == <<t.raw_w, t.raw_h>> # force_size

OnManualList(t) == \E j \in 1..Len(manual_tiles) : manual_tiles[j] = t

\* C13: a tile that is not of the standard size is auto-aligned if and only
\* if exactly one of its candidates is true; otherwise it is marked manual
\* with direction lt and is on the manual list.
C13_AutoIffOneCandidate ==
    \A i \in 1..Len(all_tiles) :
        LET t == all_tiles[i]
            one == Cardinality(TrueCandidates(t)) = 1
        IN  NonStandard(t) =>
              /\ (t.align_mode = "auto") <=> one
              /\ one => ~OnManualList(t)
              /\ ~one => /\ t.align_mode = "manual"
                         /\ t.align_direction = "lt"
                         /\ OnManualList(t)

\* The loop is over with a tile that was auto-aligned to a corner and a tile
\* that is manual because two or more of its candidates are true.
C13_Witness ==
    /\ apc = "adjust"
    /\ \E i \in 1..Len(all_tiles) :
        /\ all_tiles[i].raw_w # force_size[1]
        /\ all_tiles[i].raw_h # force_size[2]
        /\ all_tiles[i].align_mode = "auto"
    /\ \E i \in 1..Len(all_tiles) :
        /\ Cardinality(TrueCandidates(all_tiles[i])) > 1
        /\ OnManualList(all_tiles[i])

----------------------------------------------------------------------------
(* Further claims about _manual_split                                      *)

\* C21: every pixel of the final ownership mask of map i is a pixel of the
\* land mask of map i, whatever the number of maps.
C21_OwnedWithinLand ==
    spc = "exported" => \A i \in MapIdx : fin[i] \subseteq land_masks[i]

\* The orders in which the fillable components can be taken.
Orders == { f \in [DOMAIN cc -> DOMAIN cc] : \A i, j \in DOMAIN cc : f[i] = f[j] => i = j }

\* The owner array after the components are processed in order f, from the
\* k-th on, each by one iteration of the loop.
RECURSIVE AssignInOrder(_, _, _)
AssignInOrder(own, f, k) ==
    IF k > Len(cc) THEN own
    ELSE AssignInOrder(AssignComponent(own, cc[f[k]], exclusive_masks, canvas_w, canvas_h),
                       f, k + 1)

\* The component loop is over and the wall pass has not run.
LoopDone == spc = "assign" /\ cc_id > Len(cc)

\* C22: the owner array at the end of the component loop is the one that
\* results from processing the components in any order, starting from the
\* owner array the loop started with.
C22_OrderIndependent ==
    LoopDone =>
        \A f \in Orders :
            owner = AssignInOrder(InitOwner(land_masks, overlap, canvas_w, canvas_h), f, 1)

\* The loop has assigned two or more components, not all to one map, one of
\* them by the distance fallback.
C22_Witness ==
    /\ LoopDone
    /\ Len(cc) >= 2
    /\ \E j, k \in DOMAIN cc : \E p \in cc[j], q \in cc[k] : owner[p] # owner[q]
    /\ \E k \in DOMAIN cc : \A i \in MapIdx : RingCount(cc[k], i) = 0

----------------------------------------------------------------------------
(* Further claims about Drawer.paste                                       *)

\* The source pixel that the k-th paste puts on canvas pixel p.
SourceAt(k, p) ==
    PasteArgsAt(k).img.px[<<p[1] - PasteArgsAt(k).pos[1], p[2] - PasteArgsAt(k).pos[2]>>]

\* C23: where a blended paste puts a source pixel of alpha 0 on a canvas
\* pixel of alpha 0, the canvas pixel keeps the values it had in every
\* channel.
C23_ZeroAlphaKeeps ==
    \A k \in 1..PastesMade :
        PasteArgsAt(k).with_alpha =>
            \A p \in Intersection(pst_snaps[k], PasteArgsAt(k).img, PasteArgsAt(k).pos) :
                (/\ Len(pst_snaps[k].px[p]) = 4
                 /\ pst_snaps[k].px[p][4] = 0
                 /\ SourceAt(k, p)[4] = 0)
                    => pst_snaps[k + 1].px[p] = pst_snaps[k].px[p]

----------------------------------------------------------------------------
(* Claims about _stitch_group                                              *)

\* The maps _stitch_group was called with.
OriginalMaps ==
    CHOOSE g \in GroupLib : shape = [nm \in DOMAIN g |-> <<g[nm].w, g[nm].h>>]

\* The order of the stages: layout, composite and write, island removal,
\* recomposite, partition (barrier loop, component pass, wall pass), export.
StageSteps ==
    { <<"layout", "islands">>, <<"islands", "recomposite">>, <<"recomposite", "split">>,
      <<"split", "draw">>, <<"split", "exported">>, <<"draw", "assign">>,
      <<"draw", "exported">>, <<"assign", "final">>, <<"final", "exported">> }

\* C25: the stages of _stitch_group run in one order.  The layout is
\* computed from the maps as they were passed in and never again; the
\* stitched file is written once, before the island removal, and holds the
\* composite of the unfiltered maps; the maps are filtered once; the canvas
\* handed to the partition is composited after that, from the filtered maps
\* at the same positions; the land masks are computed after that, from the
\* filtered maps, and stay as they are.
C25_StageOrder ==
    [][ /\ spc' # spc => <<spc, spc'>> \in StageSteps
        /\ spc = "layout" => maps = OriginalMaps
        /\ spc # "layout" => UNCHANGED layoutVars
        /\ IF spc = "layout" /\ spc' = "islands"
           THEN stitched_png' = CompositeCanvas(maps, positions, pos_keys, canvas_h', canvas_w')
           ELSE stitched_png' = stitched_png
        /\ IF spc = "islands" /\ spc' = "recomposite"
           THEN maps' = RemoveIslands(maps)
           ELSE maps' = maps
        /\ IF spc = "recomposite" /\ spc' = "split"
           THEN stitch_canvas' = CompositeCanvas(maps, positions, pos_keys, canvas_h, canvas_w)
           ELSE spc \notin {"layout", "islands", "recomposite"} => stitch_canvas' = stitch_canvas
        /\ IF spc = "split" /\ spc' # spc
           THEN \A i \in DOMAIN land_masks' :
                    land_masks'[i] = LandMask(maps[names_list[i + 1]],
                                              positions[names_list[i + 1]], canvas_w, canvas_h)
           ELSE land_masks' = land_masks
      ]_vars

\* A group whose maps lost islands has been partitioned: the stitched file
\* and the canvas of the partition differ, and so do the land masks from
\* those of the unfiltered maps.
C25_Witness ==
    /\ spc = "exported"
    /\ key = ENTER
    /\ stitched_png # stitch_canvas
    /\ \E i \in DOMAIN land_masks :
          land_masks[i] # LandMask(OriginalMaps[names_list[i + 1]],
                                   positions[names_list[i + 1]], canvas_w, canvas_h)

\* C26: _export_split_maps is called once and only once per group, at the
\* end of every path: without overlap the land masks are exported and the
\* barrier loop is never opened; after ESC the land masks are exported and
\* the barrier is ignored; after ENTER or after the window was closed the
\* ownership of the partition made with the barrier drawn so far is
\* exported.
C26_ExportedOnce ==
    /\ exported <= 1
    /\ (exported = 1) <=> (spc = "exported")
    /\ spc = "exported" =>
          /\ overlap = {} => key = 0 /\ n_events = 0 /\ fin = land_masks
          /\ overlap # {} => key \in {ESC, ENTER, NO_KEY}
          /\ key = ESC => fin = land_masks
          /\ key \in {ENTER, NO_KEY} =>
                /\ wall = Dilate(barrier, CROSS3, canvas_w, canvas_h)
                /\ fin = [i \in MapIdx |-> { p \in Canvas : owner[p] = i }]
                /\ \A p \in wall \cap overlap : owner[p] \in MapIdx

\* The window was closed after a barrier had been drawn across the overlap,
\* and the partition was exported.
C26_Witness ==
    /\ spc = "exported"
    /\ key = NO_KEY
    /\ exported = 1
    /\ barrier \cap overlap # {}
    /\ Len(cc) >= 2

----------------------------------------------------------------------------
(* Claims about mouse_cb of _manual_split                                   *)

\* What holds in every state: after a button-up event nothing is active and
\* the last point is cleared; whenever nothing is active there is no last
\* point; the barrier marks pixels of the canvas only.
C30_Cleared ==
    /\ event = "EVENT_BUTTONUP" => ~drawing /\ ~erasing /\ last_pt = None
    /\ (~drawing /\ ~erasing) => last_pt = None
    /\ barrier \subseteq Canvas

\* What holds of every step: a mouse-move event delivered while neither
\* drawing nor erasing is active changes nothing of the barrier; a flag is
\* raised by its button-down event only; the barrier changes only on a mouse
\* event that leaves drawing or erasing active.
C30_MoveStep ==
    /\ (n_events' = n_events + 1 /\ event' = "EVENT_MOUSEMOVE" /\ ~drawing /\ ~erasing)
          => barrier' = barrier /\ last_pt' = None /\ ~drawing' /\ ~erasing'
    /\ (drawing' /\ ~drawing) => n_events' = n_events + 1 /\ event' = "EVENT_LBUTTONDOWN"
    /\ (erasing' /\ ~erasing) => n_events' = n_events + 1 /\ event' = "EVENT_RBUTTONDOWN"
    /\ barrier' # barrier => n_events' = n_events + 1 /\ (drawing' \/ erasing')

\* C30: in the barrier drawing handler mouse-move events change the barrier
\* only between a button-down and the next button-up: after a button-up event
\* of either button neither drawing nor erasing is active and the last point
\* is cleared, so the moves that follow leave the barrier unchanged until the
\* next button-down; the barrier is a 0/1 array (the set of its 1-pixels).
C30_MovesDrawOnlyWhileDown == []C30_Cleared /\ [][C30_MoveStep]_vars

\* A button was pressed and released, and a mouse move arrived afterwards while
\* the barrier holds the pixels drawn before.
C30_Witness ==
    /\ spc = "draw"
    /\ event = "EVENT_MOUSEMOVE"
    /\ n_events >= 3
    /\ ~drawing /\ ~erasing
    /\ barrier # {}

----------------------------------------------------------------------------
(* The wall of _manual_split (lines 1156-1168) as a function of the        *)
(* barrier: the barrier is given as a thin line across the canvas, and the *)
(* group is stitched and partitioned with it.                              *)

\* Width and height of the canvas the groups below are stitched onto.
WallCanvas == <<7, 5>>

\* The slopes a line takes from one row (or column) to the next: d1 after
\* an even index, d2 after an odd one.
Slopes == (-1..1) \X (-1..1)

\* The coordinate of the line at index k when it starts at s.
LineAt(s, d, k) == s + ((k + 1) \div 2) * d[1] + (k \div 2) * d[2]

\* One pixel in each row, neighbouring rows at most one column apart.
VerticalLines ==
    { { <<LineAt(s, d, y), y>> : y \in 0..(WallCanvas[2] - 1) } :
        <<s, d>> \in { sd \in (0..(WallCanvas[1] - 1)) \X Slopes :
                         \A y \in 0..(WallCanvas[2] - 1) :
                            LineAt(sd[1], sd[2], y) \in 0..(WallCanvas[1] - 1) } }

\* One pixel in each column, neighbouring columns at most one row apart.
HorizontalLines ==
    { { <<x, LineAt(s, d, x)>> : x \in 0..(WallCanvas[1] - 1) } :
        <<s, d>> \in { sd \in (0..(WallCanvas[2] - 1)) \X Slopes :
                         \A x \in 0..(WallCanvas[1] - 1) :
                            LineAt(sd[1], sd[2], x) \in 0..(WallCanvas[2] - 1) } }

WallGroups == { GroupIslands, GroupSparse }

WallInit ==
    /\ maps \in WallGroups
    /\ dir_files = { nm \o PNG : nm \in DOMAIN maps }
    /\ shape = [nm \in DOMAIN maps |-> <<maps[nm].w, maps[nm].h>>]
    /\ match = [p \in { q \in (DOMAIN maps) \X (DOMAIN maps) : q[1] # q[2] } |->
                  MatchPair(maps[p[1]], maps[p[2]], THRESHOLD_PCT)]
    /\ LayoutStart
    /\ run_no = 1
    /\ first_layout = None
    /\ MatchIdle
    /\ ExtraIdle
    /\ names_list = <<>>
    /\ canvas_w = 0
    /\ canvas_h = 0
    /\ land_masks = EmptyFn
    /\ any_land = {}
    /\ overlap = {}
    /\ stitched_png = None
    /\ stitch_canvas = None
    /\ owner = EmptyFn
    /\ barrier \in VerticalLines \cup HorizontalLines
    /\ drawing = FALSE
    /\ erasing = FALSE
    /\ last_pt = None
    /\ n_events = 0
    /\ event = "none"
    /\ key = 0
    /\ wall = {}
    /\ cc = <<>>
    /\ exclusive_masks = EmptyFn
    /\ cc_id = 0
    /\ fin = None
    /\ exported = 0
    /\ spc = "layout"

WallNext ==
    \/ L_Load
    \/ L_Match
    \/ L_Start
    \/ L_Visit
    \/ L_BfsDone
    \/ L_Normalize
    \/ L_Return
    \/ S_Composite
    \/ S_RemoveIslands
    \/ S_Recomposite
    \/ S_SplitBegin
    \/ S_Esc
    \/ \E k \in {ENTER, NO_KEY} : S_Confirm(k)
    \/ S_AssignComponent
    \/ S_WallPass
    \/ S_Export

SpecWall == WallInit /\ [][WallNext]_vars

\* The barrier has one pixel in every row of the canvas.
IsVerticalLine ==
    \A y \in 0..(canvas_h - 1) : Cardinality({ p \in barrier : p[2] = y }) = 1

\* The barrier has one pixel in every column of the canvas.
IsHorizontalLine ==
    \A x \in 0..(canvas_w - 1) : Cardinality({ p \in barrier : p[1] = x }) = 1

\* Overlap pixels left of (s = -1) or right of (s = 1) the line's pixel in
\* their row.
SideOfRow(s) ==
    { p \in overlap : \E b \in barrier : b[2] = p[2] /\ (p[1] - b[1]) * s > 0 }

\* Overlap pixels above (s = -1) or below (s = 1) the line's pixel in their
\* column.
SideOfColumn(s) ==
    { p \in overlap : \E b \in barrier : b[1] = p[1] /\ (p[2] - b[2]) * s > 0 }

\* A set of pixels that is one component under 4-connectivity.
FourConnected(S) == Len(Components(S, CROSS3)) = 1

\* C24: the wall, the barrier dilated once by the 3x3 cross, is a
\* 4-connected separator: when the barrier is an 8-connected line across the
\* canvas, the wall is 4-connected, no fillable pixel lies on it, and no
\* 4-connected fillable component holds pixels from both sides of the line.
C24_WallSeparates ==
    (spc \in {"assign", "final", "exported"} /\ key \in {ENTER, NO_KEY}) =>
        /\ FourConnected(wall)
        /\ \A k \in 1..Len(cc) : cc[k] \cap wall = {} /\ cc[k] \subseteq overlap
        /\ IsVerticalLine =>
              \A k \in 1..Len(cc) :
                 cc[k] \cap SideOfRow(-1) = {} \/ cc[k] \cap SideOfRow(1) = {}
        /\ IsHorizontalLine =>
              \A k \in 1..Len(cc) :
                 cc[k] \cap SideOfColumn(-1) = {} \/ cc[k] \cap SideOfColumn(1) = {}

\* The line has a diagonal step inside the overlap, and fillable components
\* were found on both of its sides.
C24_Witness ==
    /\ spc = "assign"
    /\ IsVerticalLine
    /\ \E a \in barrier \cap overlap : \E b \in barrier \cap overlap :
          b[2] = a[2] + 1 /\ b[1] # a[1]
    /\ \E k \in 1..Len(cc) : cc[k] \cap SideOfRow(-1) # {}
    /\ \E k \in 1..Len(cc) : cc[k] \cap SideOfRow(1) # {}

----------------------------------------------------------------------------
(* Claims about the alignment of tiles in _process_single_group            *)

Corners == {"lt", "rt", "lb", "rb"}

\* The pastes made for tile t.
PastesOf(t) == { j \in 1..Len(pasted) : pasted[j].xy = <<t.file_x, t.file_y>> }

\* An auto-aligned tile was pasted once, where the anchor rule of the manual
\* phase puts a tile of its size for its recorded direction.
AutoAtCornerAnchor(t) ==
    t.align_mode = "auto" =>
        /\ Cardinality(PastesOf(t)) = 1
        /\ \A j \in PastesOf(t) :
              pasted[j].pos = ManualAnchor(t.align_direction,
                                           TilePos(<<t.file_x, t.file_y>>, max_x, max_y), t)

----------------------------------------------------------------------------
(* Claims about _manual_adjustment_phase                                   *)

\* Where a w x h tile lies when its corner d is put on corner d of the cell
\* at pos.
CornerAnchor(d, pos, w, h) ==
    << IF d \in {"rt", "rb"} THEN pos[1] + force_size[1] - w ELSE pos[1],
       IF d \in {"lb", "rb"} THEN pos[2] + force_size[2] - h ELSE pos[2] >>

\* The canvas of line 365.
BlankCanvas ==
    Raster(max_x * force_size[1], max_y * force_size[2],
           [p \in Pixels(max_x * force_size[1], max_y * force_size[2]) |-> <<0, 0, 0, 0>>])

\* The blank canvas with the logged pastes i.. made on cv one after another.
RECURSIVE ReplayPasted(_, _)
ReplayPasted(cv, i) ==
    IF i > Len(pasted) THEN cv
    ELSE ReplayPasted(Paste(cv, pasted[i].img, pasted[i].pos, TRUE).img, i + 1)

\* C28: manual tiles are not composited onto the canvas while the tiles are
\* loaded nor while the manual phase waits; when the phase has ended, which
\* it does by ENTER, by ESC or by the window being closed and by nothing
\* else, every manual tile was pasted exactly once, at the anchor of the
\* direction it holds then, which is lt for a tile that was never clicked.
C28_ManualPastedAtEnd ==
    /\ apc # "idle" => canvas = ReplayPasted(BlankCanvas, 1)
    /\ apc \in {"loop", "adjust"} =>
          /\ akey = 0
          /\ \A i \in 1..Len(manual_tiles) : PastesOf(manual_tiles[i]) = {}
    /\ apc = "save" =>
          /\ IF manual_tiles = <<>> THEN akey = 0 ELSE akey \in {ENTER, ESC, NO_KEY}
          /\ \A i \in 1..Len(manual_tiles) :
                LET t == manual_tiles[i]
                    pos == TilePos(<<t.file_x, t.file_y>>, max_x, max_y)
                IN  /\ Cardinality(PastesOf(t)) = 1
                    /\ \A j \in PastesOf(t) :
                          /\ pasted[j].img = t.raw_img
                          /\ pasted[j].pos = CornerAnchor(t.align_direction, pos,
                                                          t.raw_w, t.raw_h)
                          /\ hits[i] = 0 => pasted[j].pos = pos

\* The phase was ended by ESC with two manual tiles, one clicked to a
\* direction whose anchor is off the corner of its cell, one never clicked.
C28_Witness ==
    /\ apc = "save"
    /\ akey = ESC
    /\ Len(manual_tiles) = 2
    /\ \E i \in 1..2 : hits[i] = 0
    /\ \E i \in 1..2 :
          /\ hits[i] > 0
          /\ \E j \in PastesOf(manual_tiles[i]) :
                pasted[j].pos # TilePos(<<manual_tiles[i].file_x, manual_tiles[i].file_y>>,
                                        max_x, max_y)

\* The successor of a direction in the cycle lt -> rt -> rb -> lb -> lt.
CycleSucc == ("lt" :> "rt") @@ ("rt" :> "rb") @@ ("rb" :> "lb") @@ ("lb" :> "lt")

\* Every direction is one of the four, and it is the direction reached from
\* lt by as many steps of the cycle as the tile was changed by clicks: after
\* four of them, lt again.
C29_Directions ==
    \A i \in 1..Len(manual_tiles) :
        /\ manual_tiles[i].align_direction \in Corners
        /\ manual_tiles[i].align_direction = <<"lt", "rt", "rb", "lb">>[(hits[i] % 4) + 1]

\* One call of handle_click: a left click changes the first tile in list
\* order whose cell contains it and no other tile, any other event changes
\* none; the changed tile moves one step in the cycle and keeps its other
\* fields; the canvas and the list of all tiles stay.
C29_ClickStep ==
    \A ev \in MouseEvents, pt \in ClickPts :
        G_Mouse(ev, pt) =>
            LET hit == { i \in 1..Len(manual_tiles) : InCell(manual_tiles[i], pt, canvas) }
                changed == { i \in 1..Len(manual_tiles) : manual_tiles'[i] # manual_tiles[i] }
            IN  /\ Len(manual_tiles') = Len(manual_tiles)
                /\ IF ev = "EVENT_LBUTTONDOWN" /\ hit # {}
                   THEN changed = { i \in hit : \A j \in hit : i <= j }
                   ELSE changed = {}
                /\ \A i \in changed :
                      manual_tiles'[i] =
                         [manual_tiles[i] EXCEPT
                             !.align_direction = CycleSucc[manual_tiles[i].align_direction]]
                /\ hits' = [i \in 1..Len(manual_tiles) |->
                               IF i \in changed THEN hits[i] + 1 ELSE hits[i]]
                /\ UNCHANGED <<canvas, all_tiles, pasted>>

\* C29: in the manual adjustment phase each left click that hits a manual
\* tile advances the direction of exactly one tile, the first in list order
\* whose cell contains the click, to the next value of the cycle
\* lt -> rt -> rb -> lb -> lt and leaves every other tile and every other
\* field of that tile unchanged; every direction stays in {lt, rt, rb, lb},
\* and four clicks on the same tile restore its original direction.
C29_ClickCycles == []C29_Directions /\ [][C29_ClickStep]_vars

\* Four clicks went to the first of two manual tiles, which is back at lt.
C29_Witness ==
    /\ apc = "adjust"
    /\ Len(manual_tiles) = 2
    /\ n_clicks = 4
    /\ hits = <<4, 0>>
    /\ manual_tiles[1].align_direction = "lt"

============================================================================
